---- MODULE Spec2Model ----
(***************************************************************************)
(* Model of the Volcano batch-scheduler integration of the Spark operator  *)
(* (pkg/batchscheduler/volcano/volcano_scheduler.go).                      *)
(*                                                                         *)
(* Conventions                                                             *)
(*  - a Go pointer field (to string, float32, int32) is a set that is     *)
(*    empty for nil and a singleton when set;                              *)
(*  - a Go map is a function whose DOMAIN is the set of keys present       *)
(*    (corev1.ResourceList, annotation maps); a nil annotation map is      *)
(*    told apart from an empty one by the isNil field;                     *)
(*  - a resource.Quantity is an integer number of micro-units (1e-6);      *)
(*  - a Go error is a sequence of strings, <<>> being nil;                 *)
(*  - a *SparkApplication is the name of a heap slot of the worker.        *)
(***************************************************************************)
EXTENDS Integers, Sequences, FiniteSets, TLC

VARIABLES
    heap,        \* [Procs -> [allocated slots -> SparkApplication]]
    podGroups,   \* the PodGroup objects stored by the cluster API
    pc,          \* [Procs -> position of the worker]
    frame,       \* [Procs -> locals of the call in progress]
    ret,         \* [Procs -> values returned by the last call]
    calls,       \* [Procs -> number of submissions issued]
    api,         \* [Procs -> API requests issued by the call in progress]
    hist,        \* [Procs -> what the caller observed around the call]
    faults,      \* number of opaque cluster-API failures so far
    groups0,     \* the PodGroups stored before any submission
    startup,     \* the construction of the scheduler by New, and the CRD it needs
    resIn,       \* the application given to the Resource Aggregator
    res,         \* the Resource Aggregator's results
    patchIn,     \* the pod and the application given to the Pod Mutation Engine
    patch        \* the patch list, the pod document and the mutated pod

vars == <<heap, podGroups, pc, frame, ret, calls, api, hist, faults, groups0, startup,
          resIn, res, patchIn, patch>>

coordVars == <<heap, podGroups, pc, frame, ret, calls, api, hist, faults, groups0, startup>>

resVars == <<resIn, res>>

patchVars == <<patchIn, patch>>

(***************************************************************************)
(* Bounds of the model.                                                    *)
(***************************************************************************)
MaxInstances == 2

MaxCalls == 2

MaxFaults == 1

MaxOwnerRefs == 2

MaxExisting == 1

MaxDeclared == 2

MaxContainers == 2

MaxSidecars == 2

Procs == {"w1", "w2"}

(***************************************************************************)
(* Names fixed by the program and its libraries.                           *)
(***************************************************************************)
GroupNameAnnotationKey == "scheduling.k8s.io/group-name"

ClientMode == "client"

ClusterMode == "cluster"

InClusterClientMode == "in-cluster-client"

ResourceCPU == "cpu"

ResourceMemory == "memory"

ResourceNames == {ResourceCPU, ResourceMemory}

NoErr == <<>>

ErrNotFound == <<"NotFound">>

ErrAlreadyExists == <<"AlreadyExists">>

ErrConflict == <<"Conflict">>

ErrOpaque == <<"InternalError">>

(***************************************************************************)
(* resource.ParseQuantity on the quantity strings the model uses.  The     *)
(* value is in micro-units; a string that is no quantity is an error.      *)
(***************************************************************************)
ParseQuantity(s) ==
    CASE s = "2"        -> [ok |-> TRUE, value |-> 2000000]
      [] s = "8"        -> [ok |-> TRUE, value |-> 8000000]
      [] s = "1"        -> [ok |-> TRUE, value |-> 1000000]
      [] s = "500m"     -> [ok |-> TRUE, value |-> 500000]
      [] s = "512m"     -> [ok |-> TRUE, value |-> 512000]
      [] s = "100m"     -> [ok |-> TRUE, value |-> 100000]
      [] s = "4.000000" -> [ok |-> TRUE, value |-> 4000000]
      [] s = "0.500000" -> [ok |-> TRUE, value |-> 500000]
      [] s = "0.000000" -> [ok |-> TRUE, value |-> 0]
      [] OTHER          -> [ok |-> FALSE, value |-> 0]

(***************************************************************************)
(* fmt.Sprintf("%f", cores): six decimals, rounded; NaN prints as "NaN".   *)
(* A float32 is named by its literal.                                      *)
(***************************************************************************)
SprintfF(f) ==
    CASE f = "4"    -> "4.000000"
      [] f = "0.5"  -> "0.500000"
      [] f = "4e-7" -> "0.000000"
      [] f = "NaN"  -> "NaN"
      [] OTHER      -> "NaN"

EmptyResourceList == [name \in {} |-> 0]

\* minResource[name] = value
SetResource(rl, name, value) ==
    [n \in DOMAIN rl \cup {name} |-> IF n = name THEN value ELSE rl[n]]

\* an inner loop that stores the quantity of l over the one summed so far
AddResourceListOverwriting(total, l) ==
    [name \in DOMAIN total \cup DOMAIN l |->
        IF name \in DOMAIN l THEN l[name] ELSE total[name]]

\* One pass of the inner loop of sumResourceList over the keys of l.
AddResourceList(total, l) ==
    [name \in DOMAIN total \cup DOMAIN l |->
        IF name \notin DOMAIN total THEN l[name]
        ELSE IF name \in DOMAIN l THEN total[name] + l[name]
        ELSE total[name]]

RECURSIVE sumLoop(_, _)
sumLoop(list, totalResource) ==
    IF list = <<>> THEN totalResource
    ELSE sumLoop(Tail(list), AddResourceList(totalResource, Head(list)))

sumResourceList(list) == sumLoop(list, EmptyResourceList)

(***************************************************************************)
(* The CPU steps of the request vectors.  Each step keeps an entry that    *)
(* is already there, and adds nothing when its field is nil or does not    *)
(* parse.                                                                  *)
(***************************************************************************)
\* the CoreRequest step: a cpu entry when the field is set and parses
cpuFromCoreRequest(rl, role) ==
    IF role.coreRequest = {} THEN rl
    ELSE LET q == ParseQuantity(CHOOSE s \in role.coreRequest : TRUE)
         IN IF q.ok THEN SetResource(rl, ResourceCPU, q.value) ELSE rl

\* the executor's Cores step: taken only when no cpu entry exists yet
cpuFromCoresIfEmpty(rl, role) ==
    IF role.cores = {} \/ ResourceCPU \in DOMAIN rl THEN rl
    ELSE LET q == ParseQuantity(SprintfF(CHOOSE f \in role.cores : TRUE))
         IN IF q.ok THEN SetResource(rl, ResourceCPU, q.value) ELSE rl

\* the driver's Cores step: the first step of the driver, unconditional
cpuFromCores(rl, role) ==
    IF role.cores = {} THEN rl
    ELSE LET q == ParseQuantity(SprintfF(CHOOSE f \in role.cores : TRUE))
         IN IF q.ok THEN SetResource(rl, ResourceCPU, q.value) ELSE rl

\* a CoreLimit step that overwrites the cpu entry found so far
cpuFromCoreLimitAlways(rl, role) ==
    IF role.coreLimit = {} THEN rl
    ELSE LET q == ParseQuantity(CHOOSE s \in role.coreLimit : TRUE)
         IN IF q.ok THEN SetResource(rl, ResourceCPU, q.value) ELSE rl

\* the CoreLimit step: taken only when no cpu entry exists yet
cpuFromCoreLimit(rl, role) ==
    IF role.coreLimit = {} \/ ResourceCPU \in DOMAIN rl THEN rl
    ELSE LET q == ParseQuantity(CHOOSE s \in role.coreLimit : TRUE)
         IN IF q.ok THEN SetResource(rl, ResourceCPU, q.value) ELSE rl

\* a Memory step that gives up the whole vector on a string that does not parse
memoryFromMemoryAborting(rl, role) ==
    IF role.memory = {} THEN rl
    ELSE LET q == ParseQuantity(CHOOSE s \in role.memory : TRUE)
         IN IF q.ok THEN SetResource(rl, ResourceMemory, q.value)
            ELSE EmptyResourceList

\* a MemoryOverhead step that counts the overhead also when no memory is set
memoryAddOverheadAlone(rl, role) ==
    IF role.memoryOverhead = {} THEN rl
    ELSE LET q == ParseQuantity(CHOOSE s \in role.memoryOverhead : TRUE)
         IN IF q.ok
            THEN SetResource(rl, ResourceMemory,
                    (IF ResourceMemory \in DOMAIN rl THEN rl[ResourceMemory] ELSE 0)
                        + q.value)
            ELSE rl

memoryFromMemory(rl, role) ==
    IF role.memory = {} THEN rl
    ELSE LET q == ParseQuantity(CHOOSE s \in role.memory : TRUE)
         IN IF q.ok THEN SetResource(rl, ResourceMemory, q.value) ELSE rl

memoryAddOverhead(rl, role) ==
    IF role.memoryOverhead = {} THEN rl
    ELSE LET q == ParseQuantity(CHOOSE s \in role.memoryOverhead : TRUE)
         IN IF q.ok /\ ResourceMemory \in DOMAIN rl
            THEN SetResource(rl, ResourceMemory, rl[ResourceMemory] + q.value)
            ELSE rl

\* minResource of getExecutorRequestResource before the instance loop
executorMinResource(app) ==
    memoryAddOverhead(
        memoryFromMemory(
            cpuFromCoreLimit(
                cpuFromCoresIfEmpty(
                    cpuFromCoreRequest(EmptyResourceList, app.executor),
                    app.executor),
                app.executor),
            app.executor),
        app.executor)

\* *app.Spec.Executor.Instances with Instances == nil: a nil dereference
executorInstancesNil(app) == app.executor.instances = {}

\* a loop that runs once more than Instances says (i <= Instances)
executorResourceListInclusive(app) ==
    LET n == CHOOSE i \in app.executor.instances : TRUE
    IN <<EmptyResourceList>> \o [i \in 1..(n + 1) |-> executorMinResource(app)]

\* resourceList := []ResourceList{{}}; then minResource appended Instances times
executorResourceList(app) ==
    LET n == CHOOSE i \in app.executor.instances : TRUE
    IN <<EmptyResourceList>> \o [i \in 1..n |-> executorMinResource(app)]

\* defined when Instances is set; the nil case is executorInstancesNil
getExecutorRequestResource(app) == sumResourceList(executorResourceList(app))

getDriverRequestResource(app) ==
    memoryAddOverhead(
        memoryFromMemory(
            cpuFromCoreLimit(
                cpuFromCores(EmptyResourceList, app.driver),
                app.driver),
            app.driver),
        app.driver)

\* a total that leaves the driver out
clusterModeTotalExecutorOnly(app) == getExecutorRequestResource(app)

\* totalResource of syncPodGroupInClusterMode
clusterModeTotalResource(app) ==
    sumResourceList(<<getExecutorRequestResource(app), getDriverRequestResource(app)>>)

(***************************************************************************)
(* SparkApplication objects.                                               *)
(***************************************************************************)
EmptyMap == [k \in {} |-> <<>>]

NilAnnotations == [isNil |-> TRUE, kv |-> EmptyMap]

MakeAnnotations(kv) == [isNil |-> FALSE, kv |-> kv]

\* a name built from the namespace instead of the application's name
getAppPodGroupNameOfNamespace(app) == <<"spark-", app.namespace, "-pg">>

\* fmt.Sprintf("spark-%s-pg", app.Name); a string built of parts is their sequence
getAppPodGroupName(app) == <<"spark-", app.name, "-pg">>

\* _, ok := annotations[GroupNameAnnotationKey]
hasGroupName(annotations) == GroupNameAnnotationKey \in DOMAIN annotations.kv

\* annotations[GroupNameAnnotationKey] = value, on a map that is not nil
setGroupName(annotations, value) ==
    [annotations EXCEPT !.kv =
        [k \in DOMAIN annotations.kv \cup {GroupNameAnnotationKey} |->
            IF k = GroupNameAnnotationKey THEN value ELSE annotations.kv[k]]]

\* if Annotations == nil { Annotations = make(map[string]string) }, both roles
ensureAnnotations(app) ==
    [app EXCEPT
        !.executor.annotations = IF @.isNil THEN MakeAnnotations(EmptyMap) ELSE @,
        !.driver.annotations = IF @.isNil THEN MakeAnnotations(EmptyMap) ELSE @]

(***************************************************************************)
(* The heap of a worker: slot "app" holds the caller's object, "copy1"     *)
(* the copy made by DoBatchSchedulingOnSubmission and "copy2" the copy     *)
(* made by syncPodGroupInClientMode.                                       *)
(***************************************************************************)
Slots == {"app", "copy1", "copy2"}

\* a call that shares its argument instead of copying it
DeepCopyShared(h, src, dst) == [heap |-> h, ptr |-> src]

\* app.DeepCopy(): a new object, equal to the source, at slot dst
DeepCopy(h, src, dst) ==
    [heap |-> [s \in DOMAIN h \cup {dst} |-> IF s = dst THEN h[src] ELSE h[s]],
     ptr  |-> dst]

\* a write through the pointer ptr
Store(h, ptr, obj) == [h EXCEPT ![ptr] = obj]

NoFrame ==
    [mode |-> "", app |-> "app", size |-> 0, minResource |-> EmptyResourceList,
     pg |-> {}, err |-> NoErr, innerErr |-> NoErr, returned |-> FALSE]

NoRet == [app |-> {}, err |-> NoErr]

NoApi == [gets |-> 0, creates |-> 0, updates |-> 0, fetched |-> <<>>]

\* the call returns (job, err) without calling syncPodGroup
Returned(h, job, err) ==
    [heap |-> h, pc |-> "returned", frame |-> NoFrame,
     ret |-> [app |-> job, err |-> err]]

\* the goroutine dereferences nil: the program stops
Panicked(h) == [heap |-> h, pc |-> "panicked", frame |-> NoFrame, ret |-> NoRet]

\* the call enters syncPodGroup(app, size, minResource)
Syncing(h, mode, app, size, minResource) ==
    [heap |-> h, pc |-> "get",
     frame |-> [mode |-> mode, app |-> app, size |-> size,
                minResource |-> minResource, pg |-> {}, err |-> NoErr,
                innerErr |-> NoErr, returned |-> FALSE],
     ret |-> NoRet]

\* a guard that never skips the sync
needsSyncAlways(annotations) == TRUE

\* if _, ok := Annotations[GroupNameAnnotationKey]; !ok
needsSync(annotations) == ~hasGroupName(annotations)

\* syncPodGroupInClientMode up to its call of syncPodGroup
syncPodGroupInClientMode(h, app) ==
    LET c == DeepCopy(h, app, "copy2")
        newApp == c.ptr
    IN IF needsSync(c.heap[newApp].executor.annotations)
       THEN IF executorInstancesNil(c.heap[app])
            THEN Panicked(c.heap)
            ELSE Syncing(c.heap, ClientMode, newApp, 1,
                         getExecutorRequestResource(c.heap[app]))
       ELSE Returned(c.heap, {newApp}, NoErr)

\* syncPodGroupInClusterMode up to its call of syncPodGroup
syncPodGroupInClusterMode(h, app) ==
    IF needsSync(h[app].driver.annotations)
    THEN IF executorInstancesNil(h[app])
         THEN Panicked(h)
         ELSE Syncing(h, ClusterMode, app, 1, clusterModeTotalResource(h[app]))
    ELSE Returned(h, {app}, NoErr)

\* a dispatch that treats every mode other than client as cluster mode
DoBatchSchedulingOnSubmissionTwoModes(h) ==
    LET c == DeepCopy(h, "app", "copy1")
        newApp == c.ptr
        h1 == Store(c.heap, newApp, ensureAnnotations(c.heap[newApp]))
    IN IF h1[newApp].mode = ClientMode THEN syncPodGroupInClientMode(h1, newApp)
       ELSE syncPodGroupInClusterMode(h1, newApp)

DoBatchSchedulingOnSubmission(h) ==
    LET c == DeepCopy(h, "app", "copy1")
        newApp == c.ptr
        h1 == Store(c.heap, newApp, ensureAnnotations(c.heap[newApp]))
    IN IF h1[newApp].mode = ClientMode THEN syncPodGroupInClientMode(h1, newApp)
       ELSE IF h1[newApp].mode = ClusterMode THEN syncPodGroupInClusterMode(h1, newApp)
       ELSE Returned(h1, {newApp}, NoErr)

(***************************************************************************)
(* syncPodGroup, one action per request to the cluster API.                *)
(***************************************************************************)
Crashed == \E p \in Procs : pc[p] = "panicked"

\* an opaque failure of the cluster API is possible while the budget lasts
FaultChoices == IF faults < MaxFaults THEN {FALSE, TRUE} ELSE {FALSE}

\* the PodGroup built for Create
newPodGroup(app, size, minResource) ==
    [namespace |-> app.namespace,
     name |-> getAppPodGroupName(app),
     ownerUID |-> app.uid,
     minMember |-> size,
     minResources |-> minResource,
     resourceVersion |-> 0]

\* an update that also adds the requested resources to the stored ones
resizedPodGroupAccumulating(pg, size, minResource) ==
    [pg EXCEPT !.minMember = size,
               !.minResources = AddResourceList(pg.minResources, minResource)]

\* an update that also overwrites the stored resources with the requested ones
resizedPodGroupWithResources(pg, size, minResource) ==
    [pg EXCEPT !.minMember = size, !.minResources = minResource]

\* pg.Spec.MinMember = size
resizedPodGroup(pg, size, minResource) == [pg EXCEPT !.minMember = size]

\* fmt.Errorf("failed to sync PodGroup with error: %s. ...", err): never nil
Errorf(err) ==
    <<"failed to sync PodGroup with error">>
        \o (IF err = NoErr THEN <<"%!s(<nil>)">> ELSE err)

\* the caller keeps the returned job after a success, its own job otherwise
callerHeap(p) ==
    IF pc[p] = "returned" /\ ret[p].err = NoErr /\ ret[p].app # {}
    THEN [s \in {"app"} |-> heap[p][CHOOSE a \in ret[p].app : TRUE]]
    ELSE [s \in {"app"} |-> heap[p]["app"]]

Submit(p) ==
    /\ startup.state = "ready"
    /\ ~Crashed
    /\ pc[p] \in {"idle", "returned"}
    /\ calls[p] < MaxCalls
    /\ LET h0 == callerHeap(p)
           d == DoBatchSchedulingOnSubmission(h0)
       IN /\ heap' = [heap EXCEPT ![p] = d.heap]
          /\ pc' = [pc EXCEPT ![p] = d.pc]
          /\ frame' = [frame EXCEPT ![p] = d.frame]
          /\ ret' = [ret EXCEPT ![p] = d.ret]
          /\ hist' = [hist EXCEPT ![p] =
                        [appAtCall |-> h0["app"],
                         retry |-> pc[p] = "returned" /\ ret[p].err # NoErr]]
    /\ calls' = [calls EXCEPT ![p] = @ + 1]
    /\ api' = [api EXCEPT ![p] = NoApi]
    /\ UNCHANGED <<podGroups, faults, groups0, startup, resVars, patchVars>>

\* PodGroups(app.Namespace).Get(podGroupName)
Get(p) ==
    /\ ~Crashed
    /\ pc[p] = "get"
    /\ \E fail \in FaultChoices :
        LET app == heap[p][frame[p].app]
            podGroupName == getAppPodGroupName(app)
            found == {g \in podGroups :
                        g.namespace = app.namespace /\ g.name = podGroupName}
            err == IF fail THEN ErrOpaque
                   ELSE IF found = {} THEN ErrNotFound ELSE NoErr
        IN /\ frame' = [frame EXCEPT ![p].innerErr = err,
                                     ![p].pg = IF err = NoErr THEN found ELSE {},
                                     ![p].returned = err \notin {NoErr, ErrNotFound}]
           /\ pc' = [pc EXCEPT ![p] =
                        IF err = ErrNotFound THEN "create"
                        ELSE IF err # NoErr THEN "syncret"
                        ELSE IF (CHOOSE g \in found : TRUE).minMember # frame[p].size
                             THEN "update" ELSE "syncret"]
           /\ api' = [api EXCEPT ![p].gets = @ + 1,
                                 ![p].fetched = <<app.namespace, podGroupName>>]
           /\ faults' = IF fail THEN faults + 1 ELSE faults
    /\ UNCHANGED <<heap, podGroups, ret, calls, hist, groups0, startup, resVars, patchVars>>

\* a create that, answered "already exists", goes on to update the stored group
CreateThenUpdate(p) ==
    /\ ~Crashed
    /\ pc[p] = "create"
    /\ \E fail \in FaultChoices :
        LET app == heap[p][frame[p].app]
            podGroup == newPodGroup(app, frame[p].size, frame[p].minResource)
            stored == {g \in podGroups :
                        g.namespace = podGroup.namespace /\ g.name = podGroup.name}
            err == IF fail THEN ErrOpaque
                   ELSE IF stored # {} THEN ErrAlreadyExists ELSE NoErr
        IN /\ podGroups' = IF err = NoErr THEN podGroups \cup {podGroup} ELSE podGroups
           /\ frame' = [frame EXCEPT ![p].innerErr = err,
                                     ![p].pg = IF err = ErrAlreadyExists THEN stored ELSE @]
           /\ faults' = IF fail THEN faults + 1 ELSE faults
           /\ pc' = [pc EXCEPT ![p] =
                        IF err = ErrAlreadyExists THEN "update" ELSE "syncret"]
    /\ api' = [api EXCEPT ![p].creates = @ + 1]
    /\ UNCHANGED <<heap, ret, calls, hist, groups0, startup, resVars, patchVars>>

\* PodGroups(app.Namespace).Create(&podGroup)
Create(p) ==
    /\ ~Crashed
    /\ pc[p] = "create"
    /\ \E fail \in FaultChoices :
        LET app == heap[p][frame[p].app]
            podGroup == newPodGroup(app, frame[p].size, frame[p].minResource)
            exists == \E g \in podGroups :
                        g.namespace = podGroup.namespace /\ g.name = podGroup.name
            err == IF fail THEN ErrOpaque
                   ELSE IF exists THEN ErrAlreadyExists ELSE NoErr
        IN /\ podGroups' = IF err = NoErr THEN podGroups \cup {podGroup} ELSE podGroups
           /\ frame' = [frame EXCEPT ![p].innerErr = err]
           /\ faults' = IF fail THEN faults + 1 ELSE faults
    /\ pc' = [pc EXCEPT ![p] = "syncret"]
    /\ api' = [api EXCEPT ![p].creates = @ + 1]
    /\ UNCHANGED <<heap, ret, calls, hist, groups0, startup, resVars, patchVars>>

\* a store that answers an update by dropping the stored object
updateStoredByDelete(groups, pg) ==
    {g \in groups : ~(g.namespace = pg.namespace /\ g.name = pg.name)}

\* the store after an accepted update: pg replaces the object of its name
updateStored(groups, pg) ==
    {g \in groups : ~(g.namespace = pg.namespace /\ g.name = pg.name)}
        \cup {[pg EXCEPT !.resourceVersion = @ + 1]}

\* PodGroups(app.Namespace).Update(pg), refused when pg is stale
Update(p) ==
    /\ ~Crashed
    /\ pc[p] = "update"
    /\ \E fail \in FaultChoices :
        LET old == CHOOSE g \in frame[p].pg : TRUE
            pg == resizedPodGroup(old, frame[p].size, frame[p].minResource)
            stored == {g \in podGroups :
                        g.namespace = pg.namespace /\ g.name = pg.name}
            err == IF fail THEN ErrOpaque
                   ELSE IF stored = {} THEN ErrNotFound
                   ELSE IF \E g \in stored : g.resourceVersion # pg.resourceVersion
                        THEN ErrConflict ELSE NoErr
        IN /\ podGroups' =
                IF err = NoErr
                THEN updateStored(podGroups, pg)
                ELSE podGroups
           /\ frame' = [frame EXCEPT ![p].innerErr = err, ![p].pg = {pg}]
           /\ faults' = IF fail THEN faults + 1 ELSE faults
    /\ pc' = [pc EXCEPT ![p] = "syncret"]
    /\ api' = [api EXCEPT ![p].updates = @ + 1]
    /\ UNCHANGED <<heap, ret, calls, hist, groups0, startup, resVars, patchVars>>

\* a sync that wraps the fetch error like every other outcome
syncPodGroupResultWrapped(f) == Errorf(f.innerErr)

\* the value syncPodGroup returns: the fetch error at the early return,
\* and the result of fmt.Errorf on the function's own err everywhere else
syncPodGroupResult(f) == IF f.returned THEN f.innerErr ELSE Errorf(f.err)

\* a caller that takes every outcome of syncPodGroup for a success
syncSucceededAlways(err) == TRUE

\* err == nil
syncSucceeded(err) == err = NoErr

\* the rest of syncPodGroupInClientMode and syncPodGroupInClusterMode
SyncReturn(p) ==
    /\ ~Crashed
    /\ pc[p] = "syncret"
    /\ LET err == syncPodGroupResult(frame[p])
           app == frame[p].app
           obj == heap[p][app]
           name == getAppPodGroupName(obj)
       IN IF syncSucceeded(err)
          THEN /\ heap' = [heap EXCEPT ![p] = Store(heap[p], app,
                    IF frame[p].mode = ClientMode
                    THEN [obj EXCEPT !.executor.annotations = setGroupName(@, name)]
                    ELSE [obj EXCEPT !.executor.annotations = setGroupName(@, name),
                                     !.driver.annotations = setGroupName(@, name)])]
               /\ ret' = [ret EXCEPT ![p] = [app |-> {app}, err |-> NoErr]]
          ELSE /\ heap' = heap
               /\ ret' = [ret EXCEPT ![p] = [app |-> {}, err |-> err]]
    /\ pc' = [pc EXCEPT ![p] = "returned"]
    /\ UNCHANGED <<podGroups, frame, calls, api, hist, faults, groups0, startup, resVars, patchVars>>

(***************************************************************************)
(* The applications submitted.                                             *)
(***************************************************************************)
Role(coreRequest, cores, coreLimit, memory, memoryOverhead, annotations) ==
    [coreRequest |-> coreRequest, cores |-> cores, coreLimit |-> coreLimit,
     memory |-> memory, memoryOverhead |-> memoryOverhead,
     annotations |-> annotations]

ExecutorRole(role, instances) ==
    [coreRequest |-> role.coreRequest, cores |-> role.cores,
     coreLimit |-> role.coreLimit, memory |-> role.memory,
     memoryOverhead |-> role.memoryOverhead, annotations |-> role.annotations,
     instances |-> instances]

SparkApplication(mode, driver, executor) ==
    [name |-> "pi", namespace |-> "default", uid |-> "uid-pi", mode |-> mode,
     driver |-> driver, executor |-> executor]

Modes == {ClientMode, ClusterMode, InClusterClientMode}

InstancesChoices == {{}} \cup {{n} : n \in 0..MaxInstances}

AnnotationChoices(app) ==
    {NilAnnotations, MakeAnnotations(EmptyMap),
     MakeAnnotations([k \in {GroupNameAnnotationKey} |-> getAppPodGroupName(app)])}

\* the resource declarations of the two roles, as pairs <<driver, executor>>
Profiles ==
    {<<Role({}, {"0.5"}, {"2"}, {"1"}, {}, NilAnnotations),
       Role({}, {"4"}, {}, {"512m"}, {"100m"}, NilAnnotations)>>,
     <<Role({}, {}, {"500m"}, {"512m"}, {"100m"}, NilAnnotations),
       Role({"2"}, {}, {"8"}, {}, {"100m"}, NilAnnotations)>>}

Applications ==
    {[SparkApplication(mode, pr[1], ExecutorRole(pr[2], inst)) EXCEPT
            !.driver.annotations = da, !.executor.annotations = ea] :
        mode \in Modes, pr \in Profiles, inst \in InstancesChoices,
        da \in AnnotationChoices([name |-> "pi", namespace |-> "default"]),
        ea \in AnnotationChoices([name |-> "pi", namespace |-> "default"])}

\* the PodGroup of another application, always stored
OtherPodGroup ==
    [namespace |-> "default", name |-> <<"spark-", "etl", "-pg">>,
     ownerUID |-> "uid-etl", minMember |-> 1,
     minResources |-> [n \in {ResourceCPU} |-> 1000000], resourceVersion |-> 0]

\* what an earlier submission of app has left in the cluster: nothing, its
\* PodGroup, or its PodGroup with minMember raised from outside
StoredChoices(app) ==
    IF app.mode = InClusterClientMode \/ executorInstancesNil(app)
    THEN {{}}
    ELSE LET minResource == IF app.mode = ClientMode
                            THEN getExecutorRequestResource(app)
                            ELSE clusterModeTotalResource(app)
         IN {{}, {newPodGroup(app, 1, minResource)},
             {newPodGroup(app, 2, minResource)}}

NoRes ==
    [stage |-> "off", perInstance |-> EmptyResourceList,
     executor |-> EmptyResourceList, driver |-> EmptyResourceList,
     total |-> EmptyResourceList]

DefaultApplication ==
    SparkApplication(ClusterMode,
        Role({}, {}, {}, {}, {}, NilAnnotations),
        ExecutorRole(Role({}, {}, {}, {}, {}, NilAnnotations), {1}))

(***************************************************************************)
(* The Pod Mutation Engine (pkg/webhook) and the JSON documents its        *)
(* patches act on.                                                         *)
(*  - a Go string is a sequence of atoms: the characters "/" and "~" are   *)
(*    atoms of their own, every other atom is a run of other characters;   *)
(*  - a JSON value is a record with one field, named after its kind:       *)
(*    str (a string), bool, obj (a function from member names) or arr      *)
(*    (a sequence of values);                                              *)
(*  - a Go slice is a sequence, nil and empty alike; a Go pointer field    *)
(*    is a set, as above.                                                  *)
(***************************************************************************)
Str(a) == <<a>>

Digits == <<"0", "1", "2", "3", "4", "5", "6", "7", "8", "9", "10">>

\* strconv.Itoa / the canonical form of an integer Quantity
Itoa(n) == Str(Digits[n + 1])

IsNumber(s) == Len(s) = 1 /\ \E i \in 1..Len(Digits) : Digits[i] = s[1]

Atoi(s) == (CHOOSE i \in 1..Len(Digits) : Digits[i] = s[1]) - 1

JString(s) == [str |-> s]

JObject(f) == [obj |-> f]

JArray(a) == [arr |-> a]

Put(f, k, v) == [x \in DOMAIN f \cup {k} |-> IF x = k THEN v ELSE f[x]]

\* a member tagged omitempty is left out when its value is the zero value
PutOmitEmpty(f, k, v, empty) == IF empty THEN f ELSE Put(f, k, v)

(***************************************************************************)
(* json.Marshal of the typed objects (the json tags of corev1 / metav1).   *)
(***************************************************************************)
MarshalStringMap(m) == JObject([k \in DOMAIN m |-> JString(m[k])])

MarshalOwnerReference(r) ==
    JObject(Put(Put(Put(EmptyMap,
        Str("kind"), JString(r.kind)),
        Str("name"), JString(r.name)),
        Str("uid"), JString(r.uid)))

MarshalVolume(v) ==
    JObject(PutOmitEmpty(Put(EmptyMap,
        Str("name"), JString(v.name)),
        Str("hostPath"), JObject(Put(EmptyMap, Str("path"), JString(v.hostPath))),
            v.hostPath = <<>>))

MarshalVolumeMount(m) ==
    JObject(Put(Put(EmptyMap,
        Str("name"), JString(m.name)),
        Str("mountPath"), JString(m.mountPath)))

MarshalToleration(t) ==
    JObject(PutOmitEmpty(PutOmitEmpty(EmptyMap,
        Str("key"), JString(t.key), t.key = <<>>),
        Str("effect"), JString(t.effect), t.effect = <<>>))

MarshalResourceList(rl) == JObject([k \in DOMAIN rl |-> JString(Itoa(rl[k]))])

\* "resources" is a struct member: it is written even when it is empty
MarshalContainer(c) ==
    JObject(PutOmitEmpty(Put(Put(EmptyMap,
        Str("name"), JString(c.name)),
        Str("resources"),
            JObject(PutOmitEmpty(PutOmitEmpty(EmptyMap,
                Str("limits"), MarshalResourceList(c.limits), DOMAIN c.limits = {}),
                Str("requests"), MarshalResourceList(c.requests),
                    DOMAIN c.requests = {}))),
        Str("volumeMounts"),
            JArray([i \in 1..Len(c.volumeMounts) |->
                        MarshalVolumeMount(c.volumeMounts[i])]),
            c.volumeMounts = <<>>))

\* json.Marshal(pod): "containers" and the struct members carry no omitempty
MarshalPod(pod) ==
    LET metadata ==
            PutOmitEmpty(PutOmitEmpty(EmptyMap,
            Str("labels"), MarshalStringMap(pod.labels), DOMAIN pod.labels = {}),
            Str("ownerReferences"),
                JArray([i \in 1..Len(pod.ownerReferences) |->
                            MarshalOwnerReference(pod.ownerReferences[i])]),
                pod.ownerReferences = <<>>)
        spec ==
            PutOmitEmpty(PutOmitEmpty(PutOmitEmpty(PutOmitEmpty(PutOmitEmpty(
            PutOmitEmpty(Put(EmptyMap,
            Str("containers"),
                JArray([i \in 1..Len(pod.containers) |->
                            MarshalContainer(pod.containers[i])])),
            Str("volumes"),
                JArray([i \in 1..Len(pod.volumes) |-> MarshalVolume(pod.volumes[i])]),
                pod.volumes = <<>>),
            Str("tolerations"),
                JArray([i \in 1..Len(pod.tolerations) |->
                            MarshalToleration(pod.tolerations[i])]),
                pod.tolerations = <<>>),
            Str("nodeSelector"), MarshalStringMap(pod.nodeSelector),
                DOMAIN pod.nodeSelector = {}),
            Str("schedulerName"), JString(pod.schedulerName), pod.schedulerName = <<>>),
            Str("hostNetwork"), [bool |-> pod.hostNetwork], ~pod.hostNetwork),
            Str("dnsPolicy"), JString(pod.dnsPolicy), pod.dnsPolicy = <<>>)
    IN JObject(Put(Put(Put(EmptyMap,
            Str("metadata"), JObject(metadata)),
            Str("spec"), JObject(spec)),
            Str("status"), JObject(EmptyMap)))

(***************************************************************************)
(* json.Unmarshal into a corev1.Pod: a member that is absent leaves the    *)
(* zero value of its field.                                                *)
(***************************************************************************)
StringOf(o, k) == IF k \in DOMAIN o.obj THEN o.obj[k].str ELSE <<>>

ObjectOf(o, k) == IF k \in DOMAIN o.obj THEN o.obj[k] ELSE JObject(EmptyMap)

ArrayOf(o, k) == IF k \in DOMAIN o.obj THEN o.obj[k].arr ELSE <<>>

StringMapOf(o, k) ==
    [x \in DOMAIN ObjectOf(o, k).obj |-> ObjectOf(o, k).obj[x].str]

ResourceListOf(o, k) ==
    [x \in DOMAIN ObjectOf(o, k).obj |-> Atoi(ObjectOf(o, k).obj[x].str)]

UnmarshalOwnerReference(o) ==
    [kind |-> StringOf(o, Str("kind")), name |-> StringOf(o, Str("name")),
     uid |-> StringOf(o, Str("uid"))]

UnmarshalVolume(o) ==
    [name |-> StringOf(o, Str("name")),
     hostPath |-> StringOf(ObjectOf(o, Str("hostPath")), Str("path"))]

UnmarshalVolumeMount(o) ==
    [name |-> StringOf(o, Str("name")), mountPath |-> StringOf(o, Str("mountPath"))]

UnmarshalToleration(o) ==
    [key |-> StringOf(o, Str("key")), effect |-> StringOf(o, Str("effect"))]

UnmarshalContainer(o) ==
    [name |-> StringOf(o, Str("name")),
     volumeMounts |-> [i \in 1..Len(ArrayOf(o, Str("volumeMounts"))) |->
                        UnmarshalVolumeMount(ArrayOf(o, Str("volumeMounts"))[i])],
     limits |-> ResourceListOf(ObjectOf(o, Str("resources")), Str("limits")),
     requests |-> ResourceListOf(ObjectOf(o, Str("resources")), Str("requests"))]

\* json.Unmarshal(modified, modifiedPod)
UnmarshalPod(doc) ==
    LET meta == ObjectOf(doc, Str("metadata"))
        spec == ObjectOf(doc, Str("spec"))
        ownerReferences == ArrayOf(meta, Str("ownerReferences"))
        volumes == ArrayOf(spec, Str("volumes"))
        containers == ArrayOf(spec, Str("containers"))
        tolerations == ArrayOf(spec, Str("tolerations"))
    IN [labels |-> StringMapOf(meta, Str("labels")),
        ownerReferences |-> [i \in 1..Len(ownerReferences) |->
                                UnmarshalOwnerReference(ownerReferences[i])],
        volumes |-> [i \in 1..Len(volumes) |-> UnmarshalVolume(volumes[i])],
        containers |-> [i \in 1..Len(containers) |-> UnmarshalContainer(containers[i])],
        tolerations |-> [i \in 1..Len(tolerations) |->
                            UnmarshalToleration(tolerations[i])],
        nodeSelector |-> StringMapOf(spec, Str("nodeSelector")),
        schedulerName |-> StringOf(spec, Str("schedulerName")),
        hostNetwork |-> IF Str("hostNetwork") \in DOMAIN spec.obj
                        THEN spec.obj[Str("hostNetwork")].bool ELSE FALSE,
        dnsPolicy |-> StringOf(spec, Str("dnsPolicy"))]

(***************************************************************************)
(* JSON Patch (RFC 6902) as applied by jsonpatch.DecodePatch and           *)
(* Patch.Apply: a path is split at "/", what precedes the first "/" is     *)
(* dropped and each key is decoded ("~1" is "/", "~0" is "~").             *)
(***************************************************************************)
\* a decoder that leaves the escapes of a key in place
decodePatchKeyRaw(a) == a

decodePatchKey(a) == IF a = "~1" THEN "/" ELSE IF a = "~0" THEN "~" ELSE a

RECURSIVE splitLoop(_, _, _)
splitLoop(s, i, toks) ==
    IF i > Len(s) THEN toks
    ELSE IF s[i] = "/" THEN splitLoop(s, i + 1, Append(toks, <<>>))
    ELSE IF toks = <<>> THEN splitLoop(s, i + 1, toks)
    ELSE splitLoop(s, i + 1,
            [toks EXCEPT ![Len(toks)] = Append(@, decodePatchKey(s[i]))])

Done(node) == [ok |-> TRUE, node |-> node]

Fail(node) == [ok |-> FALSE, node |-> node]

\* an array that takes the value given for "-" at its front
arrayPrepend(a, v) == <<v>> \o a

\* the value given for "-" goes after the last element
arrayAppend(a, v) == Append(a, v)

\* "add" at the last key: a member is set or replaced, an element inserted
addLeaf(node, tok, v) ==
    IF "obj" \in DOMAIN node THEN Done(JObject(Put(node.obj, tok, v)))
    ELSE IF "arr" \in DOMAIN node
    THEN IF tok = Str("-") THEN Done(JArray(arrayAppend(node.arr, v)))
         ELSE IF IsNumber(tok) /\ Atoi(tok) <= Len(node.arr)
         THEN Done(JArray(SubSeq(node.arr, 1, Atoi(tok)) \o <<v>>
                            \o SubSeq(node.arr, Atoi(tok) + 1, Len(node.arr))))
         ELSE Fail(node)
    ELSE Fail(node)

hasChild(node, tok) ==
    IF "obj" \in DOMAIN node THEN tok \in DOMAIN node.obj
    ELSE IF "arr" \in DOMAIN node THEN IsNumber(tok) /\ Atoi(tok) < Len(node.arr)
    ELSE FALSE

child(node, tok) ==
    IF "obj" \in DOMAIN node THEN node.obj[tok] ELSE node.arr[Atoi(tok) + 1]

withChild(node, tok, c) ==
    IF "obj" \in DOMAIN node THEN JObject(Put(node.obj, tok, c))
    ELSE JArray([node.arr EXCEPT ![Atoi(tok) + 1] = c])

\* every key but the last has to lead to an existing object or array;
\* "replace" needs the member or element at the last key to exist
RECURSIVE applyAt(_, _, _, _)
applyAt(op, node, toks, v) ==
    IF toks = <<>> THEN Fail(node)
    ELSE IF Len(toks) = 1
    THEN IF op = "add" THEN addLeaf(node, toks[1], v)
         ELSE IF op = "replace" /\ hasChild(node, toks[1])
         THEN Done(withChild(node, toks[1], v))
         ELSE Fail(node)
    ELSE IF hasChild(node, Head(toks))
    THEN LET r == applyAt(op, child(node, Head(toks)), Tail(toks), v)
         IN IF r.ok THEN Done(withChild(node, Head(toks), r.node)) ELSE Fail(node)
    ELSE Fail(node)

\* json.Marshal of the value of a patch operation, by its Go type
MarshalElem(kind, v) ==
    CASE kind = "OwnerReference" -> MarshalOwnerReference(v)
      [] kind = "Volume" -> MarshalVolume(v)
      [] kind = "VolumeMount" -> MarshalVolumeMount(v)
      [] kind = "Toleration" -> MarshalToleration(v)
      [] kind = "Container" -> MarshalContainer(v)
      [] kind = "ResourceList" -> MarshalResourceList(v)
      [] kind = "Quantity" -> JString(Itoa(v))
      [] kind = "map" -> MarshalStringMap(v)
      [] kind = "bool" -> [bool |-> v]
      [] OTHER -> JString(v)

\* json.Marshal(patchOps) followed by jsonpatch.DecodePatch, for one operation
DecodeOperation(o) ==
    [op |-> o.op, path |-> splitLoop(o.path, 1, <<>>),
     value |-> IF o.list
               THEN JArray([i \in 1..Len(o.value) |-> MarshalElem(o.kind, o.value[i])])
               ELSE MarshalElem(o.kind, o.value)]


(***************************************************************************)
(* Names of package config and of corev1 that the engine relies on.        *)
(***************************************************************************)
SparkRoleLabel == Str("spark-role")

SparkDriverRole == Str("driver")

SparkExecutorRole == Str("executor")

SparkDriverContainerName == Str("spark-kubernetes-driver")

DNSClusterFirstWithHostNet == Str("ClusterFirstWithHostNet")

(***************************************************************************)
(* patchSparkPod: the ordered list of patch operations for a pod, built    *)
(* from the pod (read only) and the SparkPodSpec of the pod's role.        *)
(***************************************************************************)
patchOperation(op, path, kind, list, value) ==
    [op |-> op, path |-> path, kind |-> kind, list |-> list, value |-> value]

\* a key is escaped for use in a path: "~" as "~0", "/" as "~1"
encodePatchKey(t) ==
    [i \in 1..Len(t) |-> IF t[i] = "~" THEN "~0" ELSE IF t[i] = "/" THEN "~1" ELSE t[i]]

RECURSIVE Pointer(_)
Pointer(toks) ==
    IF toks = <<>> THEN <<>>
    ELSE <<"/">> \o encodePatchKey(Head(toks)) \o Pointer(Tail(toks))

\* a builder that takes the role of every pod to be the driver's
roleSpecOfDriver(pod, app) == app.driver

\* the SparkPodSpec selected by the role label of the pod
roleSpec(pod, app) ==
    IF SparkRoleLabel \in DOMAIN pod.labels
            /\ pod.labels[SparkRoleLabel] = SparkExecutorRole
    THEN app.executor ELSE app.driver

\* a builder that appends to a list without creating it first
appendToListNoCreate(toks, existing, elems, kind) ==
    [i \in 1..Len(elems) |->
        patchOperation("add", Pointer(toks \o <<Str("-")>>), kind, FALSE, elems[i])]

\* elems after the existing elements of the list at toks; the list is
\* created with the first element when the pod has none
appendToList(toks, existing, elems, kind) ==
    [i \in 1..Len(elems) |->
        IF existing = 0 /\ i = 1
        THEN patchOperation("add", Pointer(toks), kind, TRUE, <<elems[i]>>)
        ELSE patchOperation("add", Pointer(toks \o <<Str("-")>>), kind, FALSE, elems[i])]

addOwnerReference(pod, app) ==
    appendToList(<<Str("metadata"), Str("ownerReferences")>>,
        Len(pod.ownerReferences),
        <<[kind |-> Str("SparkApplication"), name |-> app.name, uid |-> app.uid]>>,
        "OwnerReference")

\* the volumes of the job, then the mounts of the role on the primary
\* container, which is the first one
addVolumes(pod, app, role) ==
    appendToList(<<Str("spec"), Str("volumes")>>, Len(pod.volumes), app.volumes, "Volume")
    \o appendToList(<<Str("spec"), Str("containers"), Itoa(0), Str("volumeMounts")>>,
            Len(pod.containers[1].volumeMounts), role.volumeMounts, "VolumeMount")

addTolerations(pod, role) ==
    appendToList(<<Str("spec"), Str("tolerations")>>,
        Len(pod.tolerations), role.tolerations, "Toleration")

addSchedulerName(pod, role) ==
    IF role.schedulerName = {} THEN <<>>
    ELSE <<patchOperation(IF pod.schedulerName = <<>> THEN "add" ELSE "replace",
                Pointer(<<Str("spec"), Str("schedulerName")>>), "string", FALSE,
                CHOOSE s \in role.schedulerName : TRUE)>>

\* a builder that emits the sidecars last to first
addSidecarContainersReversed(pod, role) ==
    [i \in 1..Len(role.sidecars) |->
        patchOperation("add", Pointer(<<Str("spec"), Str("containers"), Str("-")>>),
            "Container", FALSE, role.sidecars[Len(role.sidecars) + 1 - i])]

addSidecarContainers(pod, role) ==
    [i \in 1..Len(role.sidecars) |->
        patchOperation("add", Pointer(<<Str("spec"), Str("containers"), Str("-")>>),
            "Container", FALSE, role.sidecars[i])]

\* a builder that patches the DNS policy whenever hostNetwork is declared
addHostNetworkWhenDeclared(pod, role) ==
    IF role.hostNetwork = {} THEN <<>>
    ELSE <<patchOperation("add", Pointer(<<Str("spec"), Str("hostNetwork")>>),
                "bool", FALSE, CHOOSE b \in role.hostNetwork : TRUE),
           patchOperation("add", Pointer(<<Str("spec"), Str("dnsPolicy")>>),
                "string", FALSE, DNSClusterFirstWithHostNet)>>

addHostNetwork(pod, role) ==
    IF role.hostNetwork # {TRUE} THEN <<>>
    ELSE <<patchOperation("add", Pointer(<<Str("spec"), Str("hostNetwork")>>),
                "bool", FALSE, TRUE),
           patchOperation("add", Pointer(<<Str("spec"), Str("dnsPolicy")>>),
                "string", FALSE, DNSClusterFirstWithHostNet)>>

\* limits get the resource; requests get it only when the container has some
addGPU(pod, role) ==
    IF role.gpu = {} THEN <<>>
    ELSE LET gpu == CHOOSE g \in role.gpu : TRUE
             resources == <<Str("spec"), Str("containers"), Itoa(0), Str("resources")>>
             c == pod.containers[1]
         IN IF gpu.name = <<>> \/ gpu.quantity <= 0 THEN <<>>
            ELSE (IF DOMAIN c.limits = {}
                  THEN <<patchOperation("add", Pointer(resources \o <<Str("limits")>>),
                            "ResourceList", FALSE,
                            [k \in {gpu.name} |-> gpu.quantity])>>
                  ELSE <<patchOperation("add",
                            Pointer(resources \o <<Str("limits"), gpu.name>>),
                            "Quantity", FALSE, gpu.quantity)>>)
                 \o (IF DOMAIN c.requests = {} THEN <<>>
                     ELSE <<patchOperation("add",
                            Pointer(resources \o <<Str("requests"), gpu.name>>),
                            "Quantity", FALSE, gpu.quantity)>>)

\* a builder that sets the role's selector in place of the pod's
addNodeSelectorReplacing(pod, role, keys) ==
    IF keys = {} THEN <<>>
    ELSE <<patchOperation("add", Pointer(<<Str("spec"), Str("nodeSelector")>>),
                "map", FALSE, role.nodeSelector)>>

\* the entries of the role's selector under keys: the whole map when the
\* pod has no selector, one member per key when it has one
RECURSIVE addNodeSelector(_, _, _)
addNodeSelector(pod, role, keys) ==
    IF keys = {} THEN <<>>
    ELSE IF DOMAIN pod.nodeSelector = {}
    THEN <<patchOperation("add", Pointer(<<Str("spec"), Str("nodeSelector")>>),
                "map", FALSE, role.nodeSelector)>>
    ELSE LET k == CHOOSE x \in keys : TRUE
         IN <<patchOperation("add", Pointer(<<Str("spec"), Str("nodeSelector"), k>>),
                    "string", FALSE, role.nodeSelector[k])>>
            \o addNodeSelector(pod, role, keys \ {k})

patchSparkPod(pod, app) ==
    LET role == roleSpec(pod, app)
    IN addOwnerReference(pod, app)
        \o addVolumes(pod, app, role)
        \o addTolerations(pod, role)
        \o addSchedulerName(pod, role)
        \o addSidecarContainers(pod, role)
        \o addNodeSelector(pod, role, DOMAIN role.nodeSelector)
        \o addGPU(pod, role)
        \o addHostNetwork(pod, role)

(***************************************************************************)
(* The pod and the application of the tests, before any feature is set.    *)
(***************************************************************************)
Container(name) ==
    [name |-> name, volumeMounts |-> <<>>, limits |-> EmptyMap, requests |-> EmptyMap]

SparkPodSpec ==
    [volumeMounts |-> <<>>, tolerations |-> <<>>, sidecars |-> <<>>,
     schedulerName |-> {}, hostNetwork |-> {}, gpu |-> {}, nodeSelector |-> EmptyMap]

PatchApplication ==
    [name |-> Str("spark-test"), uid |-> Str("spark-test-1"), volumes |-> <<>>,
     driver |-> SparkPodSpec, executor |-> SparkPodSpec]

Pod(role) ==
    [labels |-> [k \in {SparkRoleLabel} |-> role],
     ownerReferences |-> <<>>, volumes |-> <<>>,
     containers |-> <<Container(IF role = SparkDriverRole
                                THEN SparkDriverContainerName
                                ELSE Str("executor"))>>,
     tolerations |-> <<>>, nodeSelector |-> EmptyMap,
     schedulerName |-> <<>>, hostNetwork |-> FALSE, dnsPolicy |-> <<>>]

NoPatchInput == [pod |-> Pod(SparkDriverRole), app |-> PatchApplication]

NoPatch ==
    [stage |-> "off", ops |-> <<>>, next |-> 0, doc |-> JObject(EmptyMap), pod |-> {}]

\* the name of the CRD New looks up
PodGroupName == "podgroups.scheduling.sigs.dev"

\* before New: no scheduler; crd tells whether the cluster has the CRD
NoScheduler(crd) ==
    [state |-> "none", crd |-> crd, crdGets |-> 0, crdErr |-> NoErr, err |-> NoErr]

\* after a New that found the CRD
ReadyScheduler ==
    [state |-> "ready", crd |-> TRUE, crdGets |-> 1, crdErr |-> NoErr, err |-> NoErr]

InitCoordinator(app, stored) ==
    /\ heap = [p \in Procs |-> [s \in {"app"} |-> app]]
    /\ podGroups = {OtherPodGroup} \cup stored
    /\ groups0 = podGroups
    /\ pc = [p \in Procs |-> "idle"]
    /\ frame = [p \in Procs |-> NoFrame]
    /\ ret = [p \in Procs |-> NoRet]
    /\ calls = [p \in Procs |-> 0]
    /\ api = [p \in Procs |-> NoApi]
    /\ hist = [p \in Procs |-> [appAtCall |-> app, retry |-> FALSE]]
    /\ faults = 0
    /\ startup = ReadyScheduler

Init ==
    /\ \E app \in Applications : \E stored \in StoredChoices(app) :
            InitCoordinator(app, stored)
    /\ resIn = DefaultApplication
    /\ res = NoRes
    /\ patchIn = NoPatchInput
    /\ patch = NoPatch

Next == \E p \in Procs : Submit(p) \/ Get(p) \/ Create(p) \/ Update(p) \/ SyncReturn(p)

Spec == Init /\ [][Next]_vars

(***************************************************************************)
(* The coordinator started on a job that was edited after an earlier       *)
(* submission: the PodGroup stored under its name was sized for twice the  *)
(* resources the job asks for now, with minMember as created or raised     *)
(* from outside.                                                           *)
(***************************************************************************)
InitEdited ==
    /\ \E app \in Applications :
        LET minResource == IF app.mode = ClientMode
                           THEN getExecutorRequestResource(app)
                           ELSE clusterModeTotalResource(app)
            earlier == AddResourceList(minResource, minResource)
        IN \E stored \in IF app.mode = InClusterClientMode \/ executorInstancesNil(app)
                         THEN {{}}
                         ELSE {{}, {newPodGroup(app, 1, earlier)},
                               {newPodGroup(app, 2, earlier)}} :
                InitCoordinator(app, stored)
    /\ resIn = DefaultApplication
    /\ res = NoRes
    /\ patchIn = NoPatchInput
    /\ patch = NoPatch

SpecEdited == InitEdited /\ [][Next]_vars

(***************************************************************************)
(* The Resource Aggregator alone, over every combination of the fields of  *)
(* one role.                                                               *)
(***************************************************************************)
\* every field nil, well-formed or malformed
RoleChoices ==
    LET CoreRequestChoices == {{}, {"2"}, {"abc"}}
        CoresChoices == {{}, {"4"}, {"0.5"}, {"4e-7"}, {"NaN"}}
        CoreLimitChoices == {{}, {"8"}, {"abc"}}
        MemoryChoices == {{}, {"512m"}, {"abc"}}
        MemoryOverheadChoices == {{}, {"100m"}, {"abc"}}
    IN {Role(cr, c, cl, m, mo, NilAnnotations) :
            cr \in CoreRequestChoices, c \in CoresChoices, cl \in CoreLimitChoices,
            m \in MemoryChoices, mo \in MemoryOverheadChoices}

AggregatorInputs ==
    {SparkApplication(ClusterMode, DefaultApplication.driver, ExecutorRole(r, inst)) :
        r \in RoleChoices, inst \in InstancesChoices}
    \cup
    {SparkApplication(ClusterMode, r, ExecutorRole(DefaultApplication.executor, inst)) :
        r \in RoleChoices, inst \in {{n} : n \in 0..MaxInstances}}

InitRes ==
    /\ InitCoordinator(DefaultApplication, {})
    /\ resIn \in AggregatorInputs
    /\ res = [NoRes EXCEPT !.stage = "start"]
    /\ patchIn = NoPatchInput
    /\ patch = NoPatch

\* getExecutorRequestResource(app), the first operand of the cluster-mode total
CalcExecutor ==
    /\ res.stage = "start"
    /\ res' = IF executorInstancesNil(resIn)
              THEN [res EXCEPT !.stage = "panicked"]
              ELSE [res EXCEPT !.stage = "executor",
                               !.perInstance = executorMinResource(resIn),
                               !.executor = getExecutorRequestResource(resIn)]
    /\ UNCHANGED <<coordVars, resIn, patchVars>>

\* getDriverRequestResource(app), the second operand
CalcDriver ==
    /\ res.stage = "executor"
    /\ res' = [res EXCEPT !.stage = "driver",
                          !.driver = getDriverRequestResource(resIn)]
    /\ UNCHANGED <<coordVars, resIn, patchVars>>

\* sumResourceList of the two
CalcTotal ==
    /\ res.stage = "driver"
    /\ res' = [res EXCEPT !.stage = "total",
                          !.total = clusterModeTotalResource(resIn)]
    /\ UNCHANGED <<coordVars, resIn, patchVars>>

NextRes == CalcExecutor \/ CalcDriver \/ CalcTotal

SpecRes == InitRes /\ [][NextRes]_vars

(***************************************************************************)
(* sumResourceList alone, on three resource vectors a, b and c summed in   *)
(* the groupings and orders of the monoid laws.  The loops write only      *)
(* totalResource, whose entries are deep copies (quantity.Copy) or the     *)
(* result of Add on a copy, so the vectors of the caller are read only.    *)
(***************************************************************************)
MaxQuantity == 1

InitSum ==
    /\ InitCoordinator(DefaultApplication, {})
    /\ resIn \in LET Vectors == UNION {[names -> 0..MaxQuantity] :
                                        names \in SUBSET ResourceNames}
                 IN [a : Vectors, b : Vectors, c : Vectors]
    /\ res = [stage |-> "start"]
    /\ patchIn = NoPatchInput
    /\ patch = NoPatch

SumLists ==
    /\ res.stage = "start"
    /\ res' = [stage |-> "summed",
               ab |-> sumResourceList(<<resIn.a, resIn.b>>),
               ba |-> sumResourceList(<<resIn.b, resIn.a>>),
               ab_c |-> sumResourceList(
                            <<sumResourceList(<<resIn.a, resIn.b>>), resIn.c>>),
               a_bc |-> sumResourceList(
                            <<resIn.a, sumResourceList(<<resIn.b, resIn.c>>)>>),
               a0 |-> sumResourceList(<<resIn.a, EmptyResourceList>>),
               abc |-> sumResourceList(<<resIn.a, resIn.b, resIn.c>>)]
    /\ UNCHANGED <<coordVars, resIn, patchVars>>

SpecSum == InitSum /\ [][SumLists]_vars

(***************************************************************************)
(* Vocabulary of the properties.                                           *)
(***************************************************************************)
\* a key absent from a resource vector counts as zero
Val(rl, k) == IF k \in DOMAIN rl THEN rl[k] ELSE 0

TheGroupName == <<"spark-", "pi", "-pg">>

\* the role whose annotation guards the submission already names a group
Guarded(app) ==
    \/ app.mode = ClientMode
        /\ GroupNameAnnotationKey \in DOMAIN app.executor.annotations.kv
    \/ app.mode = ClusterMode
        /\ GroupNameAnnotationKey \in DOMAIN app.driver.annotations.kv

\* the submission has to sync: client or cluster mode, guard annotation absent
Unguarded(app) == app.mode \in {ClientMode, ClusterMode} /\ ~Guarded(app)

InSync(p) == pc[p] \in {"get", "create", "update", "syncret"}

\* the call of p has returned after having called syncPodGroup
ReturnedFromSync(p) == pc[p] = "returned" /\ api[p].gets = 1

\* every request of the sync was answered without error (not-found is the
\* expected answer of the first fetch, not a failure)
ApiSucceeded(p) == ~frame[p].returned /\ frame[p].innerErr = NoErr

\* the job the call of p returned
ReturnedJob(p) == heap[p][CHOOSE a \in ret[p].app : TRUE]

Stamped(annotations) ==
    /\ GroupNameAnnotationKey \in DOMAIN annotations.kv
    /\ annotations.kv[GroupNameAnnotationKey] = TheGroupName

\* the PodGroups stored under the job's deterministic name
NamedGroups == {g \in podGroups : g.namespace = "default" /\ g.name = TheGroupName}

\* the PodGroups owned by the job
OwnedGroups == {g \in podGroups : g.ownerUID = "uid-pi"}

\* the request of one computation, by arithmetic: the driver's vector (cluster
\* mode only) plus instances times the executor's per-instance vector
ExpectedMinResource(app, k) ==
    (IF app.mode = ClusterMode THEN Val(getDriverRequestResource(app), k) ELSE 0)
    + (CHOOSE n \in app.executor.instances : TRUE) * Val(executorMinResource(app), k)

(***************************************************************************)
(* C1: in client mode, for a job without the group-name key among its      *)
(* executor annotations, a submission whose fetch and following create or  *)
(* update all succeed returns a job and no error, the returned job's       *)
(* executor annotation naming the group spark-<jobName>-pg.                *)
(***************************************************************************)
C1_ClientModeStamps ==
    \A p \in Procs :
        (/\ ReturnedFromSync(p)
         /\ hist[p].appAtCall.mode = ClientMode
         /\ ApiSucceeded(p))
        => /\ ret[p].err = NoErr
           /\ ret[p].app # {}
           /\ Stamped(ReturnedJob(p).executor.annotations)

(***************************************************************************)
(* C2: in cluster mode, for a job without the group-name key among its     *)
(* driver annotations, a submission whose fetch and following create or    *)
(* update all succeed returns a job and no error, both the driver and the  *)
(* executor annotation of the returned job naming the group.               *)
(***************************************************************************)
C2_ClusterModeStampsBoth ==
    \A p \in Procs :
        (/\ ReturnedFromSync(p)
         /\ hist[p].appAtCall.mode = ClusterMode
         /\ ApiSucceeded(p))
        => /\ ret[p].err = NoErr
           /\ ret[p].app # {}
           /\ Stamped(ReturnedJob(p).driver.annotations)
           /\ Stamped(ReturnedJob(p).executor.annotations)

(***************************************************************************)
(* C3: submissions of a job whose guard annotation (executor in client     *)
(* mode, driver in cluster mode) already holds the group-name key issue    *)
(* no create and no update, leave the stored PodGroups as they were        *)
(* before the calls, and return the job without error.                     *)
(***************************************************************************)
C3_AnnotatedGuard ==
    \A p \in Procs :
        (Guarded(hist[p].appAtCall) /\ pc[p] # "idle")
        => /\ pc[p] = "returned"
           /\ api[p].creates = 0 /\ api[p].updates = 0 /\ api[p].gets = 0
           /\ ret[p].err = NoErr
           /\ ret[p].app # {}
           /\ ReturnedJob(p) = ensureAnnotations(hist[p].appAtCall)
           /\ podGroups = groups0

C3_Witness ==
    \E p \in Procs :
        /\ Guarded(hist[p].appAtCall)
        /\ pc[p] = "returned"
        /\ calls[p] = MaxCalls
        /\ NamedGroups # {}

(***************************************************************************)
(* C4: a submission whose create is answered "already exists", because a   *)
(* concurrent submission of the same job created the group between its     *)
(* fetch and its create, is not failed: the group is stored with the       *)
(* requested minMember, the annotations are stamped, no error is returned. *)
(***************************************************************************)
C4_ConflictTolerated ==
    \A p \in Procs :
        (/\ pc[p] = "returned"
         /\ api[p].creates = 1
         /\ frame[p].innerErr = ErrAlreadyExists)
        => /\ ret[p].err = NoErr
           /\ ret[p].app # {}
           /\ \E g \in NamedGroups : g.minMember = frame[p].size
           /\ Stamped(ReturnedJob(p).executor.annotations)

(***************************************************************************)
(* C5: in every reachable state the cluster holds at most one PodGroup     *)
(* for the job, the one named spark-<jobName>-pg in the job's namespace,   *)
(* and its minResources is the request of a single computation, never a    *)
(* multiple accumulated over submissions.                                  *)
(***************************************************************************)
C5_OneGroupPerJob ==
    /\ Cardinality(NamedGroups) <= 1
    /\ OwnedGroups \subseteq NamedGroups
    /\ \A g \in NamedGroups : \A p \in Procs : \A k \in ResourceNames :
            Val(g.minResources, k) = ExpectedMinResource(hist[p].appAtCall, k)

C5_Witness ==
    /\ Cardinality(NamedGroups) = 1
    /\ \A p \in Procs : calls[p] = MaxCalls /\ pc[p] = "returned"
    /\ \E p \in Procs : api[p].updates = 1 /\ frame[p].innerErr = NoErr
    /\ \A g \in NamedGroups : Val(g.minResources, ResourceCPU) > 0

(***************************************************************************)
(* C6: whenever the sync fails (the fetch fails with an error other than   *)
(* not-found, or the create or the update fails) the submission returns    *)
(* an error and no job, and the caller's job carries no group-name         *)
(* annotation that it did not carry before.                                *)
(***************************************************************************)
C6_NoStampOnFailure ==
    \A p \in Procs :
        (ReturnedFromSync(p) /\ ~ApiSucceeded(p))
        => /\ ret[p].err # NoErr
           /\ ret[p].app = {}
           /\ hasGroupName(heap[p]["app"].executor.annotations)
                => hasGroupName(hist[p].appAtCall.executor.annotations)
           /\ hasGroupName(heap[p]["app"].driver.annotations)
                => hasGroupName(hist[p].appAtCall.driver.annotations)

C6_Witness ==
    \E p \in Procs :
        /\ ReturnedFromSync(p)
        /\ hist[p].appAtCall.mode = ClusterMode
        /\ api[p].creates = 1
        /\ frame[p].innerErr = ErrOpaque
        /\ ret[p].err # NoErr

(***************************************************************************)
(* C7: a submission that follows a failed submission of the same job is    *)
(* not skipped by the guard: the job is still unannotated and the call     *)
(* fetches the PodGroup spark-<jobName>-pg again.                          *)
(***************************************************************************)
C7_RetryFetchesAgain ==
    \A p \in Procs :
        hist[p].retry
        => /\ Unguarded(hist[p].appAtCall)
           /\ InSync(p) \/ ReturnedFromSync(p)
           /\ pc[p] # "get" => api[p].fetched = <<"default", TheGroupName>>

C7_Witness ==
    \E p \in Procs :
        /\ hist[p].retry
        /\ calls[p] = 2
        /\ pc[p] = "create"
        /\ api[p].fetched = <<"default", TheGroupName>>

(***************************************************************************)
(* C8: the job object the caller passed in is never modified, in any mode  *)
(* and whether the call succeeds or fails: it equals its value at the      *)
(* time of the call; every write goes to a copy.                           *)
(***************************************************************************)
C8_CallerJobUntouched ==
    \A p \in Procs : heap[p]["app"] = hist[p].appAtCall

C8_Witness ==
    \E p \in Procs :
        /\ pc[p] = "returned"
        /\ ret[p].err # NoErr
        /\ hist[p].appAtCall.driver.annotations.isNil
        /\ "copy1" \in DOMAIN heap[p]
        /\ ~heap[p]["copy1"].driver.annotations.isNil

(***************************************************************************)
(* C9: the sync of a cluster-mode submission requests minMember 1 and      *)
(* minResources = driver vector + instances times the per-instance         *)
(* executor vector, for every instance count; the sync of a client-mode    *)
(* submission requests minMember 1 and the executor aggregate alone.       *)
(***************************************************************************)
C9_Sizing ==
    \A p \in Procs :
        (InSync(p) \/ ReturnedFromSync(p))
        => /\ frame[p].size = 1
           /\ \A k \in ResourceNames :
                Val(frame[p].minResource, k)
                    = ExpectedMinResource(hist[p].appAtCall, k)

C9_Witness ==
    \E p \in Procs :
        /\ pc[p] = "get"
        /\ hist[p].appAtCall.mode = ClusterMode
        /\ hist[p].appAtCall.executor.instances = {MaxInstances}
        /\ Val(getDriverRequestResource(hist[p].appAtCall), ResourceCPU) > 0
        /\ Val(frame[p].minResource, ResourceCPU)
                > Val(getDriverRequestResource(hist[p].appAtCall), ResourceCPU)

(***************************************************************************)
(* C10: the CPU quantity of a role's request vector is that of the first   *)
(* field, in a fixed order, that is set to a quantity.                     *)
(***************************************************************************)
\* the quantity of an optional string field: none when nil or malformed
QuantityOf(field) ==
    IF field = {} THEN {}
    ELSE LET q == ParseQuantity(CHOOSE s \in field : TRUE)
         IN IF q.ok THEN {q.value} ELSE {}

\* the quantity of the optional cores field, formatted as a decimal
QuantityOfCores(field) ==
    IF field = {} THEN {} ELSE QuantityOf({SprintfF(CHOOSE f \in field : TRUE)})

FirstOf(a, b, c) == IF a # {} THEN a ELSE IF b # {} THEN b ELSE c

CpuOf(rl) == IF ResourceCPU \in DOMAIN rl THEN {rl[ResourceCPU]} ELSE {}

ExecutorCpuResolved ==
    res.stage \in {"executor", "driver", "total"}
    => CpuOf(res.perInstance)
        = FirstOf(QuantityOf(resIn.executor.coreRequest),
                  QuantityOfCores(resIn.executor.cores),
                  QuantityOf(resIn.executor.coreLimit))

\* C10 as claimed: for the driver and the executor alike, the CPU quantity is
\* that of coreRequest, else of cores, else of coreLimit, else absent
C10_SameOrderBothRoles ==
    /\ ExecutorCpuResolved
    /\ res.stage \in {"driver", "total"}
        => CpuOf(res.driver)
            = FirstOf(QuantityOf(resIn.driver.coreRequest),
                      QuantityOfCores(resIn.driver.cores),
                      QuantityOf(resIn.driver.coreLimit))

\* C10 as amended: the executor's CPU quantity is that of coreRequest, else of
\* cores, else of coreLimit, else absent; the driver's is that of cores, else
\* of coreLimit, else absent, whatever its coreRequest
C10_FallbackOrder ==
    /\ ExecutorCpuResolved
    /\ res.stage \in {"driver", "total"}
        => CpuOf(res.driver)
            = FirstOf(QuantityOfCores(resIn.driver.cores),
                      QuantityOf(resIn.driver.coreLimit),
                      {})

C10_Witness ==
    /\ res.stage = "driver"
    /\ resIn.driver.coreRequest = {"2"}
    /\ resIn.driver.cores = {"4"}
    /\ resIn.driver.coreLimit = {"8"}
    /\ CpuOf(res.driver) = {4000000}

(***************************************************************************)
(* C11: the executor request vector is the per-instance vector summed      *)
(* instances times: for every instance count n >= 0 and every resource     *)
(* key the aggregate is n times the per-instance quantity; n = 0 gives     *)
(* the empty vector and no error; the driver vector is counted once.       *)
(***************************************************************************)
C11_ExecutorMultiplicity ==
    resIn.executor.instances # {}
    => LET n == CHOOSE i \in resIn.executor.instances : TRUE
       IN /\ res.stage # "panicked"
          /\ res.stage \in {"executor", "driver", "total"}
                => /\ \A k \in ResourceNames :
                        Val(res.executor, k) = n * Val(res.perInstance, k)
                   /\ DOMAIN res.executor
                        = (IF n = 0 THEN {} ELSE DOMAIN res.perInstance)
          /\ res.stage = "total"
                => \A k \in ResourceNames :
                        Val(res.total, k)
                            = n * Val(res.perInstance, k) + Val(res.driver, k)

C11_Witness ==
    /\ res.stage = "total"
    /\ resIn.executor.instances = {MaxInstances}
    /\ resIn.executor.memory = {"512m"}
    /\ resIn.executor.memoryOverhead = {}
    /\ Val(res.executor, ResourceMemory) = MaxInstances * 512000
    /\ Val(res.total, ResourceMemory) = MaxInstances * 512000

(***************************************************************************)
(* New: the construction of the scheduler.  The two clients are built      *)
(* from the configuration, then the PodGroup CRD is looked up.             *)
(***************************************************************************)
ConfigChoices == {"valid", "rejected-by-volcano-client", "rejected-by-extension-client"}

\* a check that takes every answer of the CRD lookup for a success
crdLookupFailedNever(err) == FALSE

\* err != nil on the answer of CustomResourceDefinitions().Get
crdLookupFailed(err) == err # NoErr

New(config) ==
    /\ startup.state = "none"
    /\ \E fail \in FaultChoices :
        LET crdErr == IF fail THEN ErrOpaque
                      ELSE IF startup.crd THEN NoErr ELSE ErrNotFound
        IN /\ startup' =
                IF config = "rejected-by-volcano-client"
                THEN [startup EXCEPT !.state = "failed",
                        !.err = <<"failed to initialize volcano client">>]
                ELSE IF config = "rejected-by-extension-client"
                THEN [startup EXCEPT !.state = "failed",
                        !.err = <<"failed to initialize k8s extension client">>]
                ELSE IF crdLookupFailed(crdErr)
                THEN [startup EXCEPT !.state = "failed", !.crdGets = @ + 1,
                        !.crdErr = crdErr,
                        !.err = <<"podGroup CRD is required to exists">> \o crdErr]
                ELSE [startup EXCEPT !.state = "ready", !.crdGets = @ + 1,
                        !.crdErr = crdErr]
           /\ faults' = IF fail /\ config = "valid" THEN faults + 1 ELSE faults
    /\ UNCHANGED <<heap, podGroups, pc, frame, ret, calls, api, hist, groups0, resVars, patchVars>>

\* a cluster before New; without the CRD it stores no PodGroup at all
InitNew ==
    /\ \E app \in Applications :
        \E crd \in BOOLEAN :
            \E stored \in (IF crd THEN StoredChoices(app) ELSE {{}}) :
                /\ heap = [p \in Procs |-> [s \in {"app"} |-> app]]
                /\ podGroups = IF crd THEN {OtherPodGroup} \cup stored ELSE {}
                /\ hist = [p \in Procs |-> [appAtCall |-> app, retry |-> FALSE]]
                /\ startup = NoScheduler(crd)
    /\ groups0 = podGroups
    /\ pc = [p \in Procs |-> "idle"]
    /\ frame = [p \in Procs |-> NoFrame]
    /\ ret = [p \in Procs |-> NoRet]
    /\ calls = [p \in Procs |-> 0]
    /\ api = [p \in Procs |-> NoApi]
    /\ faults = 0
    /\ resIn = DefaultApplication
    /\ res = NoRes
    /\ patchIn = NoPatchInput
    /\ patch = NoPatch

NextNew == (\E config \in ConfigChoices : New(config)) \/ Next

SpecNew == InitNew /\ [][NextNew]_vars

(***************************************************************************)
(* C12: New returns an error and no scheduler when the lookup of the       *)
(* PodGroup CRD fails, so no submission is ever handled by a scheduler     *)
(* built in a cluster that lacked the CRD; the CRD is looked up once, at   *)
(* construction, and never again by a submission.                          *)
(***************************************************************************)
C12_CrdRequiredAtStartup ==
    /\ (startup.crdGets > 0 /\ startup.crdErr # NoErr)
        => startup.state = "failed" /\ startup.err # NoErr
    /\ (startup.state # "none" /\ ~startup.crd) => startup.state = "failed"
    /\ \A p \in Procs :
        (calls[p] > 0 \/ pc[p] # "idle")
        => startup.state = "ready" /\ startup.crd /\ startup.crdErr = NoErr
    /\ startup.crdGets <= 1

C12_Witness ==
    /\ startup.state = "failed"
    /\ ~startup.crd
    /\ startup.crdGets = 1
    /\ startup.crdErr = ErrNotFound
    /\ \A p \in Procs : calls[p] = 0

(***************************************************************************)
(* C13: the scheduler never deletes a PodGroup: every PodGroup stored      *)
(* before a step is still stored, under the same namespace and name,       *)
(* after it; the store is only read, added to and updated in place.        *)
(***************************************************************************)
C13_NeverDeletes ==
    [][\A g \in podGroups :
        \E h \in podGroups' : h.namespace = g.namespace /\ h.name = g.name]_vars

C13_Witness ==
    /\ \E p \in Procs :
        /\ pc[p] = "syncret"
        /\ api[p].updates = 1
        /\ frame[p].innerErr = NoErr
    /\ OtherPodGroup \in podGroups
    /\ \A g \in groups0 :
        \E h \in podGroups : h.namespace = g.namespace /\ h.name = g.name
    /\ \E g \in groups0 : g \notin podGroups

(***************************************************************************)
(* The Pod Mutation Engine under test: the pods and applications given to  *)
(* getModifiedPod, and its steps.                                          *)
(***************************************************************************)
Named(prefix, i) == <<prefix, Digits[i + 1]>>

OwnerReferences(k) ==
    [i \in 1..k |-> [kind |-> Str("ReplicaSet"),
                     name |-> Named("owner-reference", i), uid |-> Named("uid-", i)]]

Volumes(prefix, hostPath, n) ==
    [i \in 1..n |-> [name |-> Named(prefix, i), hostPath |-> hostPath]]

VolumeMounts(prefix, mountPath, n) ==
    [i \in 1..n |-> [name |-> Named(prefix, i), mountPath |-> mountPath]]

Tolerations(prefix, effect, n) ==
    [i \in 1..n |-> [key |-> Named(prefix, i), effect |-> Str(effect)]]

\* the elements an application declares
AppVolumes(n) == Volumes("spark", <<"/", "spark">>, n)

AppVolumeMounts(n) == VolumeMounts("spark", <<"/", "mnt", "/", "spark">>, n)

AppTolerations(n) == Tolerations("Key", "NoEffect", n)

Roles == {SparkDriverRole, SparkExecutorRole}

WithRole(app, role, spec) ==
    IF role = SparkDriverRole THEN [app EXCEPT !.driver = spec]
    ELSE [app EXCEPT !.executor = spec]

\* pods with and without lists, applications that declare list elements
ListInputs ==
    {[pod |-> [Pod(r) EXCEPT !.ownerReferences = OwnerReferences(k),
                             !.volumes = Volumes("volume", <<>>, e),
                             !.containers[1].volumeMounts
                                = VolumeMounts("volume", <<>>, e),
                             !.tolerations = Tolerations("node-key", "NoSchedule", e)],
      app |-> WithRole([PatchApplication EXCEPT !.volumes = AppVolumes(v)], r,
                [SparkPodSpec EXCEPT !.volumeMounts = AppVolumeMounts(m),
                                     !.tolerations = AppTolerations(t)])] :
        r \in Roles, k \in 0..MaxOwnerRefs, e \in 0..MaxExisting,
        v \in 0..MaxDeclared, m \in 0..MaxDeclared, t \in 0..MaxDeclared}

\* pods with several containers, roles that declare sidecars
SidecarInputs ==
    LET Sidecars(prefix, n) == [i \in 1..n |-> Container(Named(prefix, i))]
        PodContainers(role, n) ==
            [i \in 1..n |-> IF i = 1 THEN Pod(role).containers[1]
                            ELSE Container(Named("container", i))]
    IN {[pod |-> [Pod(r) EXCEPT !.containers = PodContainers(r, n)],
         app |-> [PatchApplication EXCEPT
                    !.driver = [SparkPodSpec EXCEPT
                        !.sidecars = Sidecars("sidecar", d),
                        !.volumeMounts = AppVolumeMounts(m)],
                    !.executor = [SparkPodSpec EXCEPT
                        !.sidecars = Sidecars("executor-sidecar", x),
                        !.volumeMounts = AppVolumeMounts(m)]]] :
            r \in Roles, n \in 1..MaxContainers, d \in 0..MaxSidecars,
            x \in 0..MaxSidecars, m \in 0..1}

\* scheduler names and host-network settings of the pod and of both roles
ScalarInputs ==
    LET SchedulerNameChoices == {{}, {Str("another_scheduler")}, {Str("volcano")}}
        HostNetworkChoices == {{}, {FALSE}, {TRUE}}
        PodNetworkChoices ==
            {[hostNetwork |-> FALSE, dnsPolicy |-> <<>>],
             [hostNetwork |-> FALSE, dnsPolicy |-> Str("ClusterFirst")],
             [hostNetwork |-> TRUE, dnsPolicy |-> Str("ClusterFirst")]}
    IN {[pod |-> [Pod(r) EXCEPT !.schedulerName = s, !.hostNetwork = n.hostNetwork,
                                !.dnsPolicy = n.dnsPolicy],
         app |-> [PatchApplication EXCEPT
                    !.driver = [SparkPodSpec EXCEPT !.schedulerName = ds,
                                                    !.hostNetwork = dh],
                    !.executor = [SparkPodSpec EXCEPT !.schedulerName = xs,
                                                      !.hostNetwork = xh]]] :
            r \in Roles, s \in {<<>>, Str("default-scheduler")},
            n \in PodNetworkChoices,
            ds \in SchedulerNameChoices, xs \in SchedulerNameChoices,
            dh \in HostNetworkChoices, xh \in HostNetworkChoices}

GPUName == <<"example.com", "/", "gpu">>

CPUName == Str("cpu")

\* GPU declarations against containers with and without limits and requests
GPUInputs ==
    LET GPUChoices ==
            {{}} \cup {{[name |-> n, quantity |-> q]} :
                        n \in {<<>>, GPUName, <<"vendor", "~", "gpu">>}, q \in -1..2}
        LimitChoices ==
            {EmptyMap, [k \in {CPUName} |-> 10],
             [k \in {CPUName, GPUName} |-> IF k = CPUName THEN 10 ELSE 1]}
        RequestChoices == {EmptyMap, [k \in {CPUName} |-> 5]}
    IN {[pod |-> [Pod(r) EXCEPT !.containers[1].limits = l,
                                !.containers[1].requests = q],
         app |-> WithRole(WithRole(PatchApplication,
                    IF r = SparkDriverRole THEN SparkExecutorRole ELSE SparkDriverRole,
                    [SparkPodSpec EXCEPT !.gpu = o]),
                    r, [SparkPodSpec EXCEPT !.gpu = g])] :
            r \in Roles, g \in GPUChoices, l \in LimitChoices, q \in RequestChoices,
            o \in {{}, {[name |-> Str("other-gpu"), quantity |-> 2]}}}

\* node selectors of the pod and of both roles, colliding and not
NodeSelectorInputs ==
    LET disk == Str("disk")
        second == Str("secondkey")
        nodeType == Str("nodeType")
        hostname == <<"kubernetes.io", "/", "hostname">>
        PodChoices ==
            {EmptyMap, [k \in {disk} |-> Str("hdd")],
             [k \in {hostname, second} |-> Str("base")],
             [k \in {disk, nodeType, hostname} |-> Str("base")]}
        DriverChoices ==
            {EmptyMap,
             [k \in {disk, second} |-> IF k = disk THEN Str("ssd") ELSE Str("secondvalue")],
             [k \in {hostname} |-> Str("node-1")]}
        ExecutorChoices ==
            {EmptyMap,
             [k \in {nodeType, second} |->
                IF k = nodeType THEN Str("gpu") ELSE Str("secondvalue")],
             [k \in {hostname, disk} |-> Str("node-2")]}
    IN {[pod |-> [Pod(r) EXCEPT !.nodeSelector = p],
         app |-> [PatchApplication EXCEPT
                    !.driver = [SparkPodSpec EXCEPT !.nodeSelector = d],
                    !.executor = [SparkPodSpec EXCEPT !.nodeSelector = x]]] :
            r \in Roles, p \in PodChoices, d \in DriverChoices, x \in ExecutorChoices}

PatchInputs ==
    ListInputs \cup SidecarInputs \cup ScalarInputs \cup GPUInputs \cup NodeSelectorInputs

InitPatch ==
    /\ InitCoordinator(DefaultApplication, {})
    /\ resIn = DefaultApplication
    /\ res = NoRes
    /\ patchIn \in PatchInputs
    /\ patch = [NoPatch EXCEPT !.stage = "start"]

\* patchOps := patchSparkPod(pod, app); original := json.Marshal(pod)
BuildPatch ==
    /\ patch.stage = "start"
    /\ patch' = [patch EXCEPT !.stage = "patched",
                              !.ops = patchSparkPod(patchIn.pod, patchIn.app),
                              !.next = 1,
                              !.doc = MarshalPod(patchIn.pod)]
    /\ UNCHANGED <<coordVars, resVars, patchIn>>

\* patch.Apply(original), one operation of the list at a time
ApplyOperation ==
    /\ patch.stage = "patched"
    /\ patch.next <= Len(patch.ops)
    /\ LET o == DecodeOperation(patch.ops[patch.next])
           r == applyAt(o.op, patch.doc, o.path, o.value)
       IN patch' = IF r.ok
                   THEN [patch EXCEPT !.doc = r.node, !.next = @ + 1]
                   ELSE [patch EXCEPT !.stage = "failed"]
    /\ UNCHANGED <<coordVars, resVars, patchIn>>

\* json.Unmarshal(modified, modifiedPod)
UnmarshalModified ==
    /\ patch.stage = "patched"
    /\ patch.next > Len(patch.ops)
    /\ patch' = [patch EXCEPT !.stage = "done", !.pod = {UnmarshalPod(patch.doc)}]
    /\ UNCHANGED <<coordVars, resVars, patchIn>>

NextPatch == BuildPatch \/ ApplyOperation \/ UnmarshalModified

SpecPatch == InitPatch /\ [][NextPatch]_vars

(***************************************************************************)
(* Vocabulary of the properties of the Pod Mutation Engine.                *)
(***************************************************************************)
BasePod == patchIn.pod

\* the SparkPodSpec of the pod's own role, read off the inputs
OwnSpec ==
    IF BasePod.labels[SparkRoleLabel] = SparkDriverRole
    THEN patchIn.app.driver ELSE patchIn.app.executor

OtherSpec ==
    IF BasePod.labels[SparkRoleLabel] = SparkDriverRole
    THEN patchIn.app.executor ELSE patchIn.app.driver

Built == patch.stage \in {"patched", "failed", "done"}

Mutated == patch.stage = "done"

ModifiedPod == CHOOSE p \in patch.pod : TRUE

\* the patch list holds an operation on the given path
Patches(path) == \E i \in 1..Len(patch.ops) : patch.ops[i].path = path

\* the patch list holds an operation on a path below the given one
PatchesBelow(path) ==
    \E i \in 1..Len(patch.ops) :
        /\ Len(patch.ops[i].path) >= Len(path)
        /\ SubSeq(patch.ops[i].path, 1, Len(path)) = path

C15_OwnerReferenceAdditive ==
    Mutated =>
        LET k == Len(BasePod.ownerReferences)
            refs == ModifiedPod.ownerReferences
        IN /\ Len(refs) = k + 1
           /\ \A i \in 1..k : refs[i] = BasePod.ownerReferences[i]
           /\ refs[k + 1] = [kind |-> Str("SparkApplication"),
                             name |-> patchIn.app.name, uid |-> patchIn.app.uid]

C15_Witness ==
    /\ Mutated
    /\ Len(BasePod.ownerReferences) = MaxOwnerRefs
    /\ Len(ModifiedPod.ownerReferences) = MaxOwnerRefs + 1
    /\ ModifiedPod.ownerReferences[MaxOwnerRefs + 1].name = patchIn.app.name

(***************************************************************************)
(* C17: when the pod's role sets hostNetwork to true the mutated pod has   *)
(* hostNetwork = true and the DNS policy ClusterFirstWithHostNet; when it  *)
(* is false or unset the patch list holds no hostNetwork and no dnsPolicy  *)
(* operation and the pod keeps both values.  Driver and executor alike.    *)
(***************************************************************************)
C17_HostNetworkCoupling ==
    /\ (Built /\ OwnSpec.hostNetwork # {TRUE}) =>
        /\ ~Patches(<<"/", "spec", "/", "hostNetwork">>)
        /\ ~Patches(<<"/", "spec", "/", "dnsPolicy">>)
    /\ (Mutated /\ OwnSpec.hostNetwork # {TRUE}) =>
        /\ ModifiedPod.hostNetwork = BasePod.hostNetwork
        /\ ModifiedPod.dnsPolicy = BasePod.dnsPolicy
    /\ (Mutated /\ OwnSpec.hostNetwork = {TRUE}) =>
        /\ ModifiedPod.hostNetwork
        /\ ModifiedPod.dnsPolicy = DNSClusterFirstWithHostNet

C17_Witness ==
    /\ Mutated
    /\ BasePod.labels[SparkRoleLabel] = SparkExecutorRole
    /\ OwnSpec.hostNetwork = {TRUE}
    /\ OtherSpec.hostNetwork = {FALSE}
    /\ ~BasePod.hostNetwork
    /\ BasePod.dnsPolicy = Str("ClusterFirst")
    /\ ModifiedPod.hostNetwork
    /\ ModifiedPod.dnsPolicy = DNSClusterFirstWithHostNet

(***************************************************************************)
(* C18: a GPU spec that is absent, has an empty name or a quantity <= 0    *)
(* yields no operation on the container's resources; one with a name and a *)
(* positive quantity puts exactly that resource, with that quantity, into  *)
(* the limits of the primary container; the CPU limit and the CPU request  *)
(* of the container keep their values in every case.                       *)
(***************************************************************************)
GPUGated ==
    \/ OwnSpec.gpu = {}
    \/ \E g \in OwnSpec.gpu : g.name = <<>> \/ g.quantity <= 0

C18_GPUGating ==
    /\ (Built /\ GPUGated) =>
        ~PatchesBelow(<<"/", "spec", "/", "containers", "/", "0", "/", "resources">>)
    /\ Mutated =>
        LET c0 == BasePod.containers[1]
            c == ModifiedPod.containers[1]
        IN /\ GPUGated => c.limits = c0.limits /\ c.requests = c0.requests
           /\ ~GPUGated =>
                \A g \in OwnSpec.gpu :
                    /\ DOMAIN c.limits = DOMAIN c0.limits \cup {g.name}
                    /\ c.limits[g.name] = g.quantity
           /\ \A k \in {CPUName} :
                /\ k \in DOMAIN c0.limits
                    => k \in DOMAIN c.limits /\ c.limits[k] = c0.limits[k]
                /\ k \in DOMAIN c0.requests
                    => k \in DOMAIN c.requests /\ c.requests[k] = c0.requests[k]
                /\ k \in DOMAIN c.limits => k \in DOMAIN c0.limits
                /\ k \in DOMAIN c.requests => k \in DOMAIN c0.requests

C18_Witness ==
    /\ Mutated
    /\ OwnSpec.gpu = {[name |-> GPUName, quantity |-> 2]}
    /\ BasePod.containers[1].limits = [k \in {CPUName} |-> 10]
    /\ BasePod.containers[1].requests = [k \in {CPUName} |-> 5]
    /\ ModifiedPod.containers[1].limits
        = [k \in {CPUName, GPUName} |-> IF k = CPUName THEN 10 ELSE 2]
    /\ ModifiedPod.containers[1].requests[CPUName] = 5

C20_SidecarOrder ==
    Mutated =>
        LET n == Len(BasePod.containers)
            m == Len(OwnSpec.sidecars)
            cs == ModifiedPod.containers
        IN /\ Len(cs) = n + m
           /\ \A i \in 1..n : cs[i].name = BasePod.containers[i].name
           /\ \A i \in 2..n : cs[i] = BasePod.containers[i]
           /\ \A i \in 1..m : cs[n + i] = OwnSpec.sidecars[i]

C20_Witness ==
    /\ Mutated
    /\ Len(BasePod.containers) = MaxContainers
    /\ Len(OwnSpec.sidecars) = MaxSidecars
    /\ Len(ModifiedPod.containers) = MaxContainers + MaxSidecars
    /\ ModifiedPod.containers[MaxContainers + 1].name = OwnSpec.sidecars[1].name
    /\ ModifiedPod.containers[MaxContainers + MaxSidecars].name
        = OwnSpec.sidecars[MaxSidecars].name

(***************************************************************************)
(* C21: the node selector of the mutated pod is the union of the base      *)
(* pod's selector and the selector of the pod's own role: every key of the *)
(* role maps to the role's value, every key only the base pod has keeps    *)
(* its value, and the selector of the other role is not applied.           *)
(***************************************************************************)
C21_NodeSelectorMerge ==
    Mutated =>
        LET base == BasePod.nodeSelector
            own == OwnSpec.nodeSelector
            merged == ModifiedPod.nodeSelector
        IN /\ DOMAIN merged = DOMAIN base \cup DOMAIN own
           /\ \A k \in DOMAIN own : merged[k] = own[k]
           /\ \A k \in DOMAIN base \ DOMAIN own : merged[k] = base[k]

C21_Witness ==
    /\ Mutated
    /\ BasePod.labels[SparkRoleLabel] = SparkExecutorRole
    /\ DOMAIN BasePod.nodeSelector
        = {Str("disk"), Str("nodeType"), <<"kubernetes.io", "/", "hostname">>}
    /\ DOMAIN OwnSpec.nodeSelector = {<<"kubernetes.io", "/", "hostname">>, Str("disk")}
    /\ DOMAIN OtherSpec.nodeSelector = {Str("disk"), Str("secondkey")}
    /\ ModifiedPod.nodeSelector[<<"kubernetes.io", "/", "hostname">>] = Str("node-2")
    /\ ModifiedPod.nodeSelector[Str("disk")] = Str("node-2")
    /\ ModifiedPod.nodeSelector[Str("nodeType")] = Str("base")
    /\ Str("secondkey") \notin DOMAIN ModifiedPod.nodeSelector

(***************************************************************************)
(* C22: when the fetch answers not-found the sync issues one create and no *)
(* update; the object created has the name spark-<jobName>-pg, the job's   *)
(* namespace, the job as owner, the requested minMember and the requested  *)
(* minResources; and when the create succeeds the sync returns success.    *)
(***************************************************************************)
C22_CreatePath ==
    \A p \in Procs :
        (pc[p] = "syncret" /\ api[p].creates = 1) =>
            /\ api[p].gets = 1
            /\ api[p].updates = 0
            /\ frame[p].innerErr = NoErr =>
                /\ \E g \in NamedGroups :
                    /\ g.ownerUID = "uid-pi"
                    /\ g.minMember = frame[p].size
                    /\ g.minResources = frame[p].minResource
                /\ syncPodGroupResult(frame[p]) = NoErr

(***************************************************************************)
(* C23: when the fetch finds a group whose minMember equals the requested  *)
(* value the sync issues no create and no update and returns success.      *)
(***************************************************************************)
C23_NoOpPath ==
    \A p \in Procs :
        (pc[p] = "syncret" /\ api[p].gets = 1 /\ frame[p].pg # {}
            /\ \A g \in frame[p].pg : g.minMember = frame[p].size
            /\ api[p].updates = 0)
        => /\ api[p].creates = 0
           /\ syncPodGroupResult(frame[p]) = NoErr

(***************************************************************************)
(* C24: when the fetch finds a group whose minMember differs from the      *)
(* requested value the sync issues one update (and no create); an accepted *)
(* update sets minMember to the requested value and leaves minResources,   *)
(* name, namespace and owner of the stored group as they were, also when   *)
(* the requested minResources differ from the stored ones.                 *)
(***************************************************************************)
C24_UpdatePath ==
    [][\A p \in Procs :
        (pc[p] = "update" /\ pc'[p] = "syncret") =>
            /\ api'[p].updates = 1
            /\ api'[p].creates = 0
            /\ \E old \in frame[p].pg : old.minMember # frame[p].size
            /\ frame'[p].innerErr = NoErr =>
                \E old \in frame[p].pg \cap podGroups : \E new \in podGroups' :
                    /\ new.name = old.name
                    /\ new.namespace = old.namespace
                    /\ new.ownerUID = old.ownerUID
                    /\ new.minResources = old.minResources
                    /\ new.minMember = frame[p].size
                    /\ podGroups' \ {new} = podGroups \ {old}
            /\ frame'[p].innerErr # NoErr => podGroups' = podGroups]_vars

C24_Witness ==
    \E p \in Procs :
        /\ pc[p] = "syncret"
        /\ api[p].updates = 1
        /\ frame[p].innerErr = NoErr
        /\ \E g \in NamedGroups :
            /\ g.minMember = frame[p].size
            /\ g.minResources # frame[p].minResource
            /\ \E g0 \in groups0 :
                /\ g0.name = g.name
                /\ g0.minMember # g.minMember
                /\ g0.minResources = g.minResources

(***************************************************************************)
(* C25: when the fetch fails with an error other than not-found the sync   *)
(* is fatal: the call never reaches the create or the update, the stored   *)
(* groups stay as they were when the fetch failed, and the submission      *)
(* hands back that very error, unwrapped, together with no job.            *)
(***************************************************************************)
C25_FetchErrorFatal ==
    \A p \in Procs :
        /\ pc[p] \in {"create", "update"} => frame[p].innerErr \in {NoErr, ErrNotFound}
        /\ (/\ pc[p] \in {"syncret", "returned"}
            /\ api[p].gets = 1
            /\ api[p].creates = 0
            /\ api[p].updates = 0
            /\ frame[p].innerErr \notin {NoErr, ErrNotFound})
           => /\ syncPodGroupResult(frame[p]) = frame[p].innerErr
              /\ pc[p] = "returned" =>
                    /\ ret[p].err = frame[p].innerErr
                    /\ ret[p].app = {}

\* a submission handed back the opaque error of its fetch, nothing written
C25_Witness ==
    \E p \in Procs :
        /\ pc[p] = "returned"
        /\ api[p].gets = 1
        /\ api[p].creates = 0
        /\ api[p].updates = 0
        /\ frame[p].innerErr = ErrOpaque
        /\ ret[p].err = ErrOpaque
        /\ ret[p].app = {}
        /\ podGroups = groups0

(***************************************************************************)
(* Malformed fields of a role, and the role with them taken out.           *)
(***************************************************************************)
\* the field is set to a string that is no quantity
Malformed(field) == field # {} /\ QuantityOf(field) = {}

\* the cores field is set to a number whose decimal form is no quantity
MalformedCores(field) == field # {} /\ QuantityOfCores(field) = {}

\* the role with every malformed field absent
WellFormedPart(role) ==
    [role EXCEPT !.coreRequest = IF Malformed(@) THEN {} ELSE @,
                 !.cores = IF MalformedCores(@) THEN {} ELSE @,
                 !.coreLimit = IF Malformed(@) THEN {} ELSE @,
                 !.memory = IF Malformed(@) THEN {} ELSE @,
                 !.memoryOverhead = IF Malformed(@) THEN {} ELSE @]

MemoryOf(rl) == IF ResourceMemory \in DOMAIN rl THEN {rl[ResourceMemory]} ELSE {}

\* what a vector holds for a role whose malformed fields count as absent
FailsOpen(rl, role, cpu) ==
    /\ CpuOf(rl) = cpu
    /\ Malformed(role.memory) => MemoryOf(rl) = {}
    /\ (Malformed(role.memoryOverhead) /\ ~Malformed(role.memory))
        => MemoryOf(rl) = QuantityOf(role.memory)
    /\ (QuantityOf(role.memory) # {} /\ QuantityOf(role.memoryOverhead) # {})
        => MemoryOf(rl) = {Val(rl, ResourceMemory)}
            /\ \A m \in QuantityOf(role.memory) :
                \A o \in QuantityOf(role.memoryOverhead) :
                    rl[ResourceMemory] = m + o

(***************************************************************************)
(* C26: a quantity string that does not parse is skipped as if the field   *)
(* were absent and never aborts the computation: a malformed coreRequest   *)
(* falls through to cores and then coreLimit, a malformed memory leaves no *)
(* memory key, a malformed memoryOverhead leaves memory alone, and the     *)
(* well-formed fields contribute what they contribute without it.          *)
(***************************************************************************)
C26_FailOpen ==
    /\ res.stage = "panicked" => executorInstancesNil(resIn)
    /\ res.stage \in {"executor", "driver", "total"} =>
        /\ FailsOpen(res.perInstance, resIn.executor,
                FirstOf(QuantityOf(resIn.executor.coreRequest),
                        QuantityOfCores(resIn.executor.cores),
                        QuantityOf(resIn.executor.coreLimit)))
        /\ res.executor = getExecutorRequestResource(
                [resIn EXCEPT !.executor = WellFormedPart(@)])
    /\ res.stage \in {"driver", "total"} =>
        /\ FailsOpen(res.driver, resIn.driver,
                FirstOf(QuantityOfCores(resIn.driver.cores),
                        QuantityOf(resIn.driver.coreLimit), {}))
        /\ res.driver = getDriverRequestResource(
                [resIn EXCEPT !.driver = WellFormedPart(@)])

\* an executor with a malformed coreRequest, memory and overhead: the cpu comes
\* from cores and there is no memory key
C26_Witness ==
    /\ res.stage = "total"
    /\ Malformed(resIn.executor.coreRequest)
    /\ QuantityOfCores(resIn.executor.cores) # {}
    /\ Malformed(resIn.executor.memory)
    /\ QuantityOf(resIn.executor.memoryOverhead) # {}
    /\ resIn.executor.instances = {2}
    /\ DOMAIN res.executor = {ResourceCPU}
    /\ CpuOf(res.perInstance) = QuantityOfCores(resIn.executor.cores)

\* the memory figure of a vector computed for a role with parsable fields
MemoryResolved(rl, role) ==
    /\ (QuantityOf(role.memory) # {} /\ role.memoryOverhead = {})
        => MemoryOf(rl) = QuantityOf(role.memory)
    /\ (QuantityOf(role.memory) # {} /\ QuantityOf(role.memoryOverhead) # {})
        => MemoryOf(rl) =
            {m + o : m \in QuantityOf(role.memory), o \in QuantityOf(role.memoryOverhead)}
    /\ role.memory = {} => MemoryOf(rl) = {}

(***************************************************************************)
(* C27: for the executor and the driver alike, the memory figure is memory *)
(* when memoryOverhead is unset, memory + memoryOverhead when both are     *)
(* set, and there is no memory key when memory is unset, also when         *)
(* memoryOverhead is set.                                                  *)
(***************************************************************************)
C27_MemoryResolution ==
    /\ res.stage \in {"executor", "driver", "total"}
        => MemoryResolved(res.perInstance, resIn.executor)
    /\ res.stage \in {"driver", "total"}
        => MemoryResolved(res.driver, resIn.driver)

\* a driver with an overhead and no memory: its vector has a cpu and no memory
C27_Witness ==
    /\ res.stage = "total"
    /\ resIn.driver.memory = {}
    /\ resIn.driver.memoryOverhead = {"100m"}
    /\ resIn.driver.coreLimit = {"8"}
    /\ DOMAIN res.driver = {ResourceCPU}
    /\ DOMAIN res.total = {ResourceCPU}

(***************************************************************************)
(* C28: summation of resource vectors is a commutative monoid: the sum of  *)
(* a and b is the sum of b and a, summing a and b first or b and c first   *)
(* gives the same total, the empty vector is the identity, a key absent    *)
(* from a vector counts as zero, and the summed vectors are left as they   *)
(* were.                                                                   *)
(***************************************************************************)
C28_CommutativeMonoid ==
    [][res'.stage = "summed" =>
        /\ res'.ab = res'.ba
        /\ res'.ab_c = res'.a_bc
        /\ res'.ab_c = res'.abc
        /\ res'.a0 = resIn.a
        /\ DOMAIN res'.abc = DOMAIN resIn.a \cup DOMAIN resIn.b \cup DOMAIN resIn.c
        /\ \A k \in ResourceNames :
            /\ Val(res'.ab, k) = Val(resIn.a, k) + Val(resIn.b, k)
            /\ Val(res'.abc, k)
                    = Val(resIn.a, k) + Val(resIn.b, k) + Val(resIn.c, k)
        /\ resIn' = resIn]_vars

\* a holds a cpu only, b a larger cpu and a memory, c a memory only
C28_Witness ==
    /\ res.stage = "summed"
    /\ DOMAIN resIn.a = {ResourceCPU}
    /\ DOMAIN resIn.b = ResourceNames
    /\ DOMAIN resIn.c = {ResourceMemory}
    /\ resIn.a[ResourceCPU] = 0
    /\ resIn.b[ResourceCPU] = MaxQuantity
    /\ resIn.b[ResourceMemory] = MaxQuantity
    /\ resIn.c[ResourceMemory] = MaxQuantity
    /\ res.abc[ResourceMemory] = 2 * MaxQuantity
    /\ res.ba[ResourceCPU] = MaxQuantity

(***************************************************************************)
(* C29: a caller that submits its unannotated job again after a failed     *)
(* call is not stuck failing: once no cluster-API call fails, it receives  *)
(* a success with the group-name annotation stamped.  With one worker and  *)
(* no failing API call the first call leaves the PodGroup in place, and    *)
(* every later call meets the store and the job as the call before it      *)
(* did, so the second call decides all of them: it returns the stamped     *)
(* job and no error.                                                       *)
(***************************************************************************)
C29_RetrySucceeds ==
    \A p \in Procs :
        (/\ pc[p] = "returned"
         /\ hist[p].retry
         /\ Unguarded(hist[p].appAtCall)
         /\ faults = 0
         /\ \A q \in Procs \ {p} : calls[q] = 0)
        => /\ ret[p].err = NoErr
           /\ ret[p].app # {}
           /\ Stamped(ReturnedJob(p).executor.annotations)

\* no call that went through the sync ever returns a success
C29_NeverSucceeds ==
    \A p \in Procs : ReturnedFromSync(p) => ret[p].err # NoErr /\ ret[p].app = {}

\* how far a call has come: the fetch, the write, the return of the sync, the
\* return of the call
Rank(position) ==
    CASE position = "get" -> 0
      [] position \in {"create", "update"} -> 1
      [] position = "syncret" -> 2
      [] OTHER -> 3

(***************************************************************************)
(* C30: a submission issues at most one fetch and at most one write, a     *)
(* create or an update and never both, and a write only after its fetch;   *)
(* every step of a call in progress takes it strictly nearer to its        *)
(* return and issues at most one request, so the call ends after at most   *)
(* three steps and nothing is retried inside it.                           *)
(***************************************************************************)
C30_BoundedApi ==
    [][\A p \in Procs :
        /\ api'[p].gets <= 1
        /\ api'[p].creates + api'[p].updates <= 1
        /\ api'[p].creates + api'[p].updates = 1 => api'[p].gets = 1
        /\ pc'[p] \in {"create", "update"}
            => api'[p].gets = 1 /\ api'[p].creates + api'[p].updates = 0
        /\ (InSync(p) /\ <<pc[p], api[p]>> # <<pc'[p], api'[p]>>)
            => /\ Rank(pc'[p]) > Rank(pc[p])
               /\ (api'[p].gets + api'[p].creates + api'[p].updates)
                    - (api[p].gets + api[p].creates + api[p].updates)
                        = (IF pc[p] = "syncret" THEN 0 ELSE 1)
        /\ (pc[p] = "idle" \/ pc[p] = "returned") /\ pc'[p] # pc[p]
            => api'[p] = NoApi]_vars

\* both workers have returned from a call that fetched and wrote once: one
\* created the group, the other was answered "already exists"
C30_Witness ==
    /\ \A p \in Procs :
        /\ pc[p] = "returned"
        /\ api[p].gets = 1
        /\ api[p].creates = 1
        /\ api[p].updates = 0
    /\ \E p \in Procs : frame[p].innerErr = ErrAlreadyExists
    /\ \E p \in Procs : frame[p].innerErr = NoErr

\* job out is job in, but for annotation maps that were nil and are now empty
SameButForEmptyMaps(in, out) ==
    /\ [out EXCEPT !.driver.annotations = in.driver.annotations,
                   !.executor.annotations = in.executor.annotations] = in
    /\ ~out.driver.annotations.isNil
    /\ ~out.executor.annotations.isNil
    /\ out.driver.annotations.kv = in.driver.annotations.kv
    /\ out.executor.annotations.kv = in.executor.annotations.kv

(***************************************************************************)
(* C31: a submission of a job whose mode is neither client nor cluster     *)
(* issues no request to the cluster API, leaves the stored PodGroups as    *)
(* they were, stamps no group-name annotation, leaves the caller's job     *)
(* untouched, and returns without error a copy of the job that differs     *)
(* from it at most by nil annotation maps having become empty maps.        *)
(***************************************************************************)
C31_UnrecognisedMode ==
    \A p \in Procs :
        (hist[p].appAtCall.mode \notin {ClientMode, ClusterMode} /\ pc[p] # "idle")
        => /\ pc[p] = "returned"
           /\ api[p].gets = 0 /\ api[p].creates = 0 /\ api[p].updates = 0
           /\ podGroups = groups0
           /\ ret[p].err = NoErr
           /\ ret[p].app # {}
           /\ "app" \notin ret[p].app
           /\ heap[p]["app"] = hist[p].appAtCall
           /\ SameButForEmptyMaps(hist[p].appAtCall, ReturnedJob(p))
           /\ hasGroupName(ReturnedJob(p).executor.annotations)
                <=> hasGroupName(hist[p].appAtCall.executor.annotations)
           /\ hasGroupName(ReturnedJob(p).driver.annotations)
                <=> hasGroupName(hist[p].appAtCall.driver.annotations)

\* a job of another mode, with nil annotation maps and no instance count, has
\* come back with empty maps and nothing stored for it
C31_Witness ==
    \E p \in Procs :
        /\ pc[p] = "returned"
        /\ calls[p] = 1
        /\ hist[p].appAtCall.mode = InClusterClientMode
        /\ hist[p].appAtCall.driver.annotations.isNil
        /\ hist[p].appAtCall.executor.annotations.isNil
        /\ hist[p].appAtCall.executor.instances = {}
        /\ ReturnedJob(p).driver.annotations = MakeAnnotations(EmptyMap)
        /\ ReturnedJob(p).executor.annotations = MakeAnnotations(EmptyMap)
        /\ NamedGroups = {}

(***************************************************************************)
(* C32: for every job, also one whose executor instance count is unset,    *)
(* a submission in client or cluster mode ends with a result or an error   *)
(* value: no worker ever stops on a fault.                                 *)
(***************************************************************************)
C32_NeverCrashes ==
    \A p \in Procs : pc[p] # "panicked"

\* the fault is that of the unset instance count, and of nothing else
C32_CrashOnlyOnNilInstances ==
    \A p \in Procs :
        pc[p] = "panicked"
        <=> /\ calls[p] > 0
            /\ Unguarded(hist[p].appAtCall)
            /\ executorInstancesNil(hist[p].appAtCall)

====
